---- MODULE Spec2Model ----
(***************************************************************************)
(* A model of pycrab (unsupervised learning of morphological signatures).  *)
(*                                                                         *)
(* Python values are modelled as follows.                                  *)
(*   str           a TLA+ string; the NULL affix is the empty string (the  *)
(*                 NULLAffix object is a str subclass whose content is     *)
(*                 empty, so it compares, hashes, concatenates and sorts   *)
(*                 as ""), and Str gives what str() displays               *)
(*   list, tuple   a sequence                                              *)
(*   dict          a sequence of <<key, value>> pairs in insertion order,  *)
(*                 compared with DictEq (Python compares dicts as          *)
(*                 mappings, whatever the insertion order)                 *)
(*   set           a set; where the code iterates over a set to build a    *)
(*                 dict the model iterates in sorted order (no modelled    *)
(*                 operation reads the order of a Signature's stems)       *)
(*   float         entropies are held in thousandths of a bit              *)
(*   exception     a record [kind |-> "ValueError", ...] in the variable   *)
(*                 that holds the call's outcome                           *)
(* utils.strip_index reads the marker as morphology.AFFIX_INDEX_DELIMITER, *)
(* the name the tests use too; morphology.py defines it as AFFIX_MARKER.   *)
(* The model takes the two names to be the one constant ":".               *)
(* Word scratchpads (free-text debugging notes) are not modelled.          *)
(***************************************************************************)
EXTENDS Integers, Sequences, FiniteSets, TLC

VARIABLES
    sig,            \* the Signature under test (or None)
    other,          \* a second Signature, built from other arguments
    ctor,           \* the arguments sig and other were built from
    null_instance,  \* NULLAffix.__instance
    null_refs,      \* the references that the NULLAffix() calls returned
    heap,           \* the number of str objects allocated so far
    morph,          \* the Morphology object
    fresh,          \* a Morphology() constructed when the running call began,
                    \* on which the same call runs
    ncalls,         \* the number of calls made on the Morphology object
    call,           \* the running learn_from_wordlist call (or None)
    ret             \* the outcome of the last query call (value or exception)

sigVars == <<sig, other, ctor>>

nullVars == <<null_instance, null_refs, heap>>

morphVars == <<morph, fresh, ncalls, call>>

vars == <<sig, other, ctor, null_instance, null_refs, heap, morph, fresh, ncalls, call, ret>>

None == [kind |-> "None"]

------------------------------------------------------------------------------
(* Bounds of the model.                                                    *)

MaxListLen == 3
MaxNumLetters == 3

------------------------------------------------------------------------------
(* Strings.                                                                *)

Min(S) == CHOOSE x \in S : \A y \in S : x <= y

Max(S) == CHOOSE x \in S : \A y \in S : x >= y

\* The characters the model uses, in increasing code point order.
Alphabet == " 0123456789:=ABCDEFGHIJKLMNOPQRSTUVWXYZabcdefghijklmnopqrstuvwxyz"

Char(s, i) == SubSeq(s, i, i)

Ord == [c \in {Char(Alphabet, i) : i \in 1..Len(Alphabet)} |->
            CHOOSE i \in 1..Len(Alphabet) : Char(Alphabet, i) = c]

\* a < b on str: lexicographic by code point, a proper prefix first.
StrLt(a, b) ==
    LET n == IF Len(a) < Len(b) THEN Len(a) ELSE Len(b)
        d == {i \in 1..n : Char(a, i) # Char(b, i)}
    IN  IF d = {} THEN Len(a) < Len(b)
        ELSE Ord[Char(a, Min(d))] < Ord[Char(b, Min(d))]

\* a < b on tuples of str of the same length.
TupleLt(a, b) ==
    LET d == {i \in 1..Len(a) : a[i] # b[i]}
    IN  d # {} /\ StrLt(a[Min(d)], b[Min(d)])

\* s[start:] with Python's treatment of a negative start (and of -0 = 0).
SliceFrom(s, start) ==
    LET n == Len(s)
        b == IF start < 0 THEN (IF n + start < 0 THEN 0 ELSE n + start)
             ELSE (IF start > n THEN n ELSE start)
    IN  SubSeq(s, b + 1, n)

\* s[:stop] for stop >= 0.
SliceTo(s, stop) == SubSeq(s, 1, IF stop > Len(s) THEN Len(s) ELSE stop)

\* s.find(c) for a one-character c: the 0-based index, or -1.
Find(s, c) ==
    LET hits == {i \in 1..Len(s) : Char(s, i) = c}
    IN  IF hits = {} THEN -1 ELSE Min(hits) - 1

StartsWith(s, p) == Len(p) <= Len(s) /\ SubSeq(s, 1, Len(p)) = p

RECURSIVE Join(_, _)
\* sep.join(list)
Join(list, sep) ==
    IF Len(list) = 0 THEN ""
    ELSE IF Len(list) = 1 THEN list[1]
    ELSE list[1] \o sep \o Join(Tail(list), sep)

\* sorted(list) for a list of str (the sort is stable).
Sorted(list) ==
    LET n == Len(list)
        rank == [i \in 1..n |->
                   Cardinality({j \in 1..n :
                       \/ StrLt(list[j], list[i])
                       \/ (~StrLt(list[i], list[j]) /\ j < i)})]
    IN  [k \in 1..n |-> list[CHOOSE i \in 1..n : rank[i] = k - 1]]

\* sorted(set) for a set of str.
SortedSet(S) ==
    [k \in 1..Cardinality(S) |->
        CHOOSE x \in S : Cardinality({y \in S : StrLt(y, x)}) = k - 1]

Range(list) == {list[i] : i \in 1..Len(list)}

\* The lists that hold the elements of list in another order.
Reorderings(list) ==
    {p \in [1..Len(list) -> Range(list)] :
        \E f \in [1..Len(list) -> 1..Len(list)] :
            /\ \A i, j \in 1..Len(list) : f[i] = f[j] => i = j
            /\ \A i \in 1..Len(list) : p[i] = list[f[i]]}

\* sorted(set) for a set of tuples of str.
SortedTuples(S) ==
    [k \in 1..Cardinality(S) |->
        CHOOSE x \in S : Cardinality({y \in S : TupleLt(y, x)}) = k - 1]

RECURSIVE Reverse(_)
\* s[::-1]
Reverse(s) == IF Len(s) = 0 THEN "" ELSE Reverse(Tail(s)) \o Char(s, 1)

\* c.lower() for one character.
LowerChar(c) ==
    IF c \in DOMAIN Ord /\ Ord[c] >= Ord["A"] /\ Ord[c] <= Ord["Z"]
    THEN Char(Alphabet, Ord[c] - Ord["A"] + Ord["a"])
    ELSE c

RECURSIVE Lower(_)
\* s.lower()
Lower(s) == IF Len(s) = 0 THEN "" ELSE LowerChar(Char(s, 1)) \o Lower(Tail(s))

\* os.path.commonprefix([a, b])
commonprefix(a, b) ==
    LET n == IF Len(a) < Len(b) THEN Len(a) ELSE Len(b)
        d == {i \in 1..n : Char(a, i) # Char(b, i)}
    IN  SubSeq(a, 1, IF d = {} THEN n ELSE Min(d) - 1)

RECURSIVE Split(_, _)
\* s.split(sep) for a one-character sep.
Split(s, sep) ==
    LET at == Find(s, sep)
    IN  IF at = -1 THEN <<s>>
        ELSE <<SliceTo(s, at)>> \o Split(SliceFrom(s, at + 1), sep)

\* sub in s
Contains(s, sub) ==
    \E i \in 1..(Len(s) - Len(sub) + 1) : SubSeq(s, i, i + Len(sub) - 1) = sub

------------------------------------------------------------------------------
(* dict, collections.Counter and utils.ImmutableDict.                      *)

Keys(d) == [i \in 1..Len(d) |-> d[i][1]]

Values(d) == [i \in 1..Len(d) |-> d[i][2]]

HasKey(d, k) == \E i \in 1..Len(d) : d[i][1] = k

Get(d, k) == d[CHOOSE i \in 1..Len(d) : d[i][1] = k][2]

\* d[k] = v
Put(d, k, v) ==
    IF HasKey(d, k)
    THEN [d EXCEPT ![CHOOSE i \in 1..Len(d) : d[i][1] = k] = <<k, v>>]
    ELSE Append(d, <<k, v>>)

\* d1 == d2
DictEq(d1, d2) == Range(d1) = Range(d2)

RECURSIVE DictOfPairs(_)
\* dict(pairs): a later pair with the same key overwrites the value.
DictOfPairs(pairs) ==
    IF Len(pairs) = 0 THEN <<>>
    ELSE LET n == Len(pairs)
             d == DictOfPairs(SubSeq(pairs, 1, n - 1))
         IN  Put(d, pairs[n][1], pairs[n][2])

\* zip(a, b)
Zip(a, b) ==
    [i \in 1..(IF Len(a) < Len(b) THEN Len(a) ELSE Len(b)) |-> <<a[i], b[i]>>]

\* The arguments of Signature() and add_signature() are lists or dicts.
PyList(list) == [type |-> "list", val |-> list]

PyDict(d) == [type |-> "dict", val |-> d]

\* What iterating over the argument yields: a dict yields its keys.
Iter(x) == IF x.type = "dict" THEN Keys(x.val) ELSE x.val

RECURSIVE CounterUnordered(_)
\* A Counter that forgets how often an element occurs.
CounterUnordered(list) ==
    IF Len(list) = 0 THEN <<>>
    ELSE LET n == Len(list)
         IN  Put(CounterUnordered(SubSeq(list, 1, n - 1)), list[n], 1)

RECURSIVE Counter(_)
\* collections.Counter(list): how often each element occurs.
Counter(list) ==
    IF Len(list) = 0 THEN <<>>
    ELSE LET n == Len(list)
             d == Counter(SubSeq(list, 1, n - 1))
         IN  Put(d, list[n], IF HasKey(d, list[n]) THEN Get(d, list[n]) + 1 ELSE 1)

\* The keys of a dict built from list: its elements in order of first
\* occurrence.
Unique(list) == Keys(Counter(list))

\* set(arg) and list(arg)
PySet(S) == [type |-> "set", val |-> S]

\* ImmutableDict(arg) = dict(collections.Counter(arg))
ImmutableDict(x) == IF x.type = "dict" THEN x.val ELSE Counter(x.val)

------------------------------------------------------------------------------
(* Module-level constants of morphology.py.                                *)

AFFIX_DELIMITER == "="

AFFIX_MARKER == ":"

\* The NULL affix: a str whose content is empty.
NULL_AFFIX == ""

\* str(morpheme): NULLAffix.__str__ displays the NULL affix as "NULL".
Str(morpheme) == IF morpheme = NULL_AFFIX THEN "NULL" ELSE morpheme

\* round(1000 * log2(n)) for n = 1..12.
Log2Milli == <<0, 1000, 1585, 2000, 2322, 2585, 2807, 3000, 3170, 3322, 3459, 3585>>

ValueError(message) == [kind |-> "ValueError", message |-> message]

Float(milli) == [kind |-> "float", milli |-> milli]

RECURSIVE Sum(_)
Sum(list) == IF Len(list) = 0 THEN 0 ELSE list[1] + Sum(Tail(list))

\* utils.entropy(counts), in thousandths of a bit; math.log(0) raises
\* ValueError when no count is positive.
entropy(counts) ==
    LET positive == SelectSeq(Values(counts), LAMBDA c : c # 0)
        my_sum == Sum(positive)
        weighted == Sum([i \in 1..Len(positive) |-> positive[i] * Log2Milli[positive[i]]])
    IN  IF my_sum = 0 THEN ValueError("math domain error")
        ELSE Float(Log2Milli[my_sum] - (weighted \div my_sum))

\* utils.strip_index(affix)
strip_index(affix) ==
    IF affix = NULL_AFFIX THEN affix
    ELSE LET location == Find(affix, AFFIX_MARKER)
         IN  IF location = -1 THEN affix ELSE SliceTo(affix, location)

------------------------------------------------------------------------------
(* class Signature: an immutable tuple (stems, stripped_stems, affixes,    *)
(* stripped_affixes, affix_side) of four ImmutableDicts and a string.      *)

\* What Signature.__new__ strips: every element the argument yields.
Stripped(x) ==
    LET list == [i \in 1..Len(Iter(x)) |-> strip_index(Iter(x)[i])]
    IN  IF x.type = "dict" THEN PyDict(DictOfPairs(Zip(list, Values(x.val))))
        ELSE PyList(list)

\* Signature.__new__(cls, stems, affixes, affix_side)
Signature(stems, affixes, affix_side) ==
    [stems            |-> ImmutableDict(stems),
     stripped_stems   |-> ImmutableDict(Stripped(stems)),
     affixes          |-> ImmutableDict(affixes),
     stripped_affixes |-> ImmutableDict(Stripped(affixes)),
     affix_side       |-> affix_side]

\* signature == other: tuple equality, the dicts compared as mappings.
SigEq(a, b) ==
    /\ DictEq(a.stems, b.stems)
    /\ DictEq(a.stripped_stems, b.stripped_stems)
    /\ DictEq(a.affixes, b.affixes)
    /\ DictEq(a.stripped_affixes, b.stripped_affixes)
    /\ a.affix_side = b.affix_side

\* A robustness that weighs every stem and affix by its count.
RobustnessWeighted(s) ==
    Sum([i \in 1..Len(s.stripped_stems) |->
            Len(s.stripped_stems[i][1]) * s.stripped_stems[i][2]])
        * (Len(s.stripped_affixes) - 1)
    + Sum([i \in 1..Len(s.stripped_affixes) |->
            Len(s.stripped_affixes[i][1]) * s.stripped_affixes[i][2]])
        * (Len(s.stripped_stems) - 1)

\* Signature._compute_robustness
robustness(s) ==
    LET saved_stem_length ==
            Len(Join(Keys(s.stripped_stems), "")) * (Len(s.stripped_affixes) - 1)
        saved_affix_length ==
            Len(Join(Keys(s.stripped_affixes), "")) * (Len(s.stripped_stems) - 1)
    IN  saved_stem_length + saved_affix_length

\* An affix string that keeps the affixes in insertion order.
AffixStringUnsorted(s) ==
    Join([i \in 1..Len(s.affixes) |-> Str(s.affixes[i][1])], AFFIX_DELIMITER)

\* Signature._compute_affix_string
affix_string(s) ==
    LET sorted == Sorted(Keys(s.affixes))
    IN  Join([i \in 1..Len(sorted) |-> Str(sorted[i])], AFFIX_DELIMITER)

\* Signature._compute_bigrams: pairs (stem, suffix) or (prefix, stem).
bigrams(s) ==
    IF s.affix_side = "suffix"
    THEN {<<s.stems[i][1], s.affixes[j][1]>> :
            i \in 1..Len(s.stems), j \in 1..Len(s.affixes)}
    ELSE {<<s.affixes[j][1], s.stems[i][1]>> :
            i \in 1..Len(s.stems), j \in 1..Len(s.affixes)}

\* An edge entropy over the first letters of the stems.
EdgeEntropyInitial(s, num_letters) ==
    IF \E i \in 1..Len(s.stripped_stems) : Len(s.stripped_stems[i][1]) < num_letters
    THEN ValueError("Signature contains stems shorter than required number of letters for entropy calculation")
    ELSE entropy(Counter([i \in 1..Len(s.stripped_stems) |->
                            SliceTo(s.stripped_stems[i][1], num_letters)]))

\* Signature.get_edge_entropy(num_letters)
get_edge_entropy(s, num_letters) ==
    IF \E i \in 1..Len(s.stripped_stems) : Len(s.stripped_stems[i][1]) < num_letters
    THEN ValueError("Signature contains stems shorter than required number of letters for entropy calculation")
    ELSE entropy(Counter([i \in 1..Len(s.stripped_stems) |->
                            SliceFrom(s.stripped_stems[i][1], -num_letters)]))

------------------------------------------------------------------------------
(* class Parse and class Word.  A Parse is the tuple of its morphemes.     *)
(* A Word's current parses are an alias of one entry of its biography      *)
(* (the entry of the function that last added or discarded a parse), or    *)
(* the empty set the Word was created with.                                *)

\* A Parse that keeps its morphemes in the opposite order.
ParseBackwards(morphemes) ==
    [i \in 1..Len(morphemes) |-> morphemes[Len(morphemes) + 1 - i]]

Parse(morphemes) == morphemes

\* The set a Word's _suffixal_parses and _prefixal_parses start as.
InitialSet == ""

\* Word.__init__(form, count)
Word(form, count) ==
    [form                |-> form,
     count               |-> count,
     _suffixal_biography |-> <<>>,
     _prefixal_biography |-> <<>>,
     _suffixal_parses    |-> InitialSet,
     _prefixal_parses    |-> InitialSet]

\* Word.get_biography(function, affix_side): the set of parses; the entry is
\* created empty when missing.
get_biography(word, function, affix_side) ==
    LET biography == IF affix_side = "prefix" THEN word._prefixal_biography
                     ELSE word._suffixal_biography
    IN  IF HasKey(biography, function) THEN Get(biography, function) ELSE {}

\* A Word that keeps every entry in its suffixal biography, as with the
\* default affix_side.
WithSuffixalBiography(word, function, parses, affix_side) ==
    [word EXCEPT !._suffixal_biography = Put(@, function, parses),
                 !._suffixal_parses = function]

\* The Word after its biography entry of function became parses, which the
\* current parses now alias.
WithBiography(word, function, parses, affix_side) ==
    IF affix_side = "prefix"
    THEN [word EXCEPT !._prefixal_biography = Put(@, function, parses),
                      !._prefixal_parses = function]
    ELSE [word EXCEPT !._suffixal_biography = Put(@, function, parses),
                      !._suffixal_parses = function]

\* Word.add_to_biography(function, parse, affix_side)
add_to_biography(word, function, parse, affix_side) ==
    WithBiography(word, function,
                  get_biography(word, function, affix_side) \cup {parse}, affix_side)

\* Word.discard_from_biography(function, parse, affix_side)
discard_from_biography(word, function, parse, affix_side) ==
    WithBiography(word, function,
                  get_biography(word, function, affix_side) \ {parse}, affix_side)

\* Word.get_parses(affix_side)
get_parses(word, affix_side) ==
    LET alias == IF affix_side = "prefix" THEN word._prefixal_parses
                 ELSE word._suffixal_parses
        parses == IF alias = InitialSet THEN {}
                  ELSE get_biography(word, alias, affix_side)
    IN  IF parses = {} THEN {Parse(<<word.form>>)} ELSE parses

------------------------------------------------------------------------------
(* class Morphology.                                                       *)

MIN_NUM_STEMS == 2

\* The attributes of an object on which __init__ has not run yet.
Blank ==
    [lexicon                  |-> <<>>,
     prefixal_signatures      |-> <<>>,
     prefixal_families        |-> PySet({}),
     prefixal_protostems      |-> <<>>,
     prefixal_name_collisions |-> <<>>,
     prefixal_analyses_run    |-> <<>>,
     suffixal_signatures      |-> <<>>,
     suffixal_families        |-> PySet({}),
     suffixal_protostems      |-> <<>>,
     suffixal_name_collisions |-> <<>>,
     suffixal_analyses_run    |-> <<>>]

\* A reset that leaves the collision counters and the lists of passes run.
ResetSignaturesOnly(self) ==
    [self EXCEPT !.lexicon = <<>>,
                 !.prefixal_signatures = <<>>,
                 !.prefixal_families = PySet({}),
                 !.prefixal_protostems = <<>>,
                 !.suffixal_signatures = <<>>,
                 !.suffixal_families = PySet({}),
                 !.suffixal_protostems = <<>>]

\* Morphology.reset()
reset(self) ==
    [self EXCEPT !.lexicon = <<>>,
                 !.prefixal_signatures = <<>>,
                 !.prefixal_families = PySet({}),
                 !.prefixal_protostems = <<>>,
                 !.prefixal_name_collisions = <<>>,
                 !.prefixal_analyses_run = <<>>,
                 !.suffixal_signatures = <<>>,
                 !.suffixal_families = PySet({}),
                 !.suffixal_protostems = <<>>,
                 !.suffixal_name_collisions = <<>>,
                 !.suffixal_analyses_run = <<>>]

\* The dict of signatures of a side (prefixal when the side is "prefix",
\* suffixal otherwise).
signatures_dict(self, affix_side) ==
    IF affix_side = "prefix" THEN self.prefixal_signatures
    ELSE self.suffixal_signatures

\* Morphology.get_signatures(affix_side): list(dict.values())
get_signatures(self, affix_side) == Values(signatures_dict(self, affix_side))

\* Morphology.get_protostems(affix_side)
get_protostems(self, affix_side) ==
    IF affix_side = "prefix" THEN self.prefixal_protostems
    ELSE self.suffixal_protostems

\* Morphology.get_analyses_list(affix_side)
get_analyses_list(self, affix_side) ==
    IF affix_side = "prefix" THEN self.prefixal_analyses_run
    ELSE self.suffixal_analyses_run

\* Morphology.get_families(affix_side)
get_families(self, affix_side) ==
    IF affix_side = "prefix" THEN self.prefixal_families
    ELSE self.suffixal_families

\* A store under the affixes joined in the order they were given.
StoreSignatureUnsorted(self, signature, affix_side) ==
    IF affix_side = "prefix"
    THEN [self EXCEPT !.prefixal_signatures = Put(@, AffixStringUnsorted(signature), signature)]
    ELSE [self EXCEPT !.suffixal_signatures = Put(@, AffixStringUnsorted(signature), signature)]

\* self.<side>_signatures[affix_string] = signature
StoreSignature(self, signature, affix_side) ==
    IF affix_side = "prefix"
    THEN [self EXCEPT !.prefixal_signatures = Put(@, affix_string(signature), signature)]
    ELSE [self EXCEPT !.suffixal_signatures = Put(@, affix_string(signature), signature)]

RECURSIVE StoreAll(_, _)
\* Morphology.__init__: the loop that stores the signatures given.
StoreAll(self, signatures) ==
    IF Len(signatures) = 0 THEN self
    ELSE StoreAll(StoreSignature(self, signatures[1], signatures[1].affix_side),
                  Tail(signatures))

\* Morphology.__init__(*signatures)
Morphology(signatures) == StoreAll(reset(Blank), signatures)

\* A get_signature that returns None for a key that is not stored.
GetSignatureOrNone(self, affix_string_, affix_side) ==
    IF HasKey(signatures_dict(self, affix_side), affix_string_)
    THEN Get(signatures_dict(self, affix_side), affix_string_)
    ELSE None

\* Morphology.get_signature(affix_string, affix_side): the Signature, or the
\* exception raised.
get_signature(self, affix_string_, affix_side) ==
    IF HasKey(signatures_dict(self, affix_side), affix_string_)
    THEN Get(signatures_dict(self, affix_side), affix_string_)
    ELSE ValueError("No " \o affix_side \o "al signature matches the requested "
                        \o "affix string")

\* del d[k]
Del(d, k) == SelectSeq(d, LAMBDA pair : pair[1] # k)

KeyError(key) == [kind |-> "KeyError", message |-> key]

\* Morphology.remove_signature(affix_string, affix_side): the morphology
\* after the call (the key is stored).
remove_signature(self, affix_string_, affix_side) ==
    IF affix_side = "prefix"
    THEN [self EXCEPT !.prefixal_signatures = Del(@, affix_string_)]
    ELSE [self EXCEPT !.suffixal_signatures = Del(@, affix_string_)]

\* Morphology.add_signature(stems, affixes, affix_side)
add_signature(self, stems, affixes, affix_side) ==
    StoreSignature(self, Signature(stems, affixes, affix_side), affix_side)

\* Morphology.get_bigrams(affix_side)
get_bigrams(self, affix_side) ==
    UNION {bigrams(get_signatures(self, affix_side)[i]) :
              i \in 1..Len(get_signatures(self, affix_side))}

\* How often morpheme occurs in parse.
CountIn(parse, morpheme) == Cardinality({i \in 1..Len(parse) : parse[i] = morpheme})

RECURSIVE SumOver(_, _)
\* The sum of f[x] over the elements x of S.
SumOver(S, f) ==
    IF S = {} THEN 0
    ELSE LET x == CHOOSE x \in S : TRUE IN f[x] + SumOver(S \ {x}, f)

\* build_signatures: morpheme_counts[morpheme], the counts of the words
\* that have the morpheme in a current parse, once per occurrence.
morpheme_count(self, affix_side, morpheme) ==
    Sum([i \in 1..Len(self.lexicon) |->
            LET word == self.lexicon[i][2]
                parses == get_parses(word, affix_side)
            IN  word.count * SumOver(parses, [parse \in parses |-> CountIn(parse, morpheme)])])

\* A threshold that a set of exactly min_num_stems stems does not meet.
MoreStemsThan(stems, min_num_stems) == Cardinality(stems) > min_num_stems

\* build_signatures: len(stems) >= min_num_stems
EnoughStems(stems, min_num_stems) == Cardinality(stems) >= min_num_stems

\* The stem and the affix of a bigram: (stem, suffix) or (prefix, stem).
StemOf(bigram, affix_side) == IF affix_side = "suffix" THEN bigram[1] ELSE bigram[2]

AffixOf(bigram, affix_side) == IF affix_side = "suffix" THEN bigram[2] ELSE bigram[1]

\* build_signatures: affixes[stem]
AffixesOfStem(bigrams_, stem, affix_side) ==
    {AffixOf(b, affix_side) : b \in {b \in bigrams_ : StemOf(b, affix_side) = stem}}

\* build_signatures: the keys of stem_sets, tuple(sorted(affixes)) of every
\* stem, in insertion order.
StemSetKeys(bigrams_, affix_side) ==
    LET sorted == SortedTuples(bigrams_)
        stems == Unique([i \in 1..Len(sorted) |-> StemOf(sorted[i], affix_side)])
    IN  Unique([i \in 1..Len(stems) |->
                   SortedSet(AffixesOfStem(bigrams_, stems[i], affix_side))])

\* Stem sets that also take the stems that have some of the affixes only.
StemSetOfSomeAffixes(bigrams_, affixes, affix_side) ==
    {stem \in {StemOf(b, affix_side) : b \in bigrams_} :
        AffixesOfStem(bigrams_, stem, affix_side) \subseteq Range(affixes)}

\* build_signatures: stem_sets[affixes]
StemSet(bigrams_, affixes, affix_side) ==
    {stem \in {StemOf(b, affix_side) : b \in bigrams_} :
        SortedSet(AffixesOfStem(bigrams_, stem, affix_side)) = affixes}

RECURSIVE BuildAll(_, _, _, _, _)
\* build_signatures: the loop that adds a signature for every set of
\* stems that is large enough.
BuildAll(self, keys, bigrams_, affix_side, min_num_stems) ==
    IF Len(keys) = 0 THEN self
    ELSE
        LET affixes == keys[1]
            stems == SortedSet(StemSet(bigrams_, affixes, affix_side))
            stem_counts == [i \in 1..Len(stems) |->
                               <<stems[i], morpheme_count(self, affix_side, stems[i])>>]
            affix_counts == [i \in 1..Len(affixes) |->
                               <<affixes[i], morpheme_count(self, affix_side, affixes[i])>>]
            added == IF ~EnoughStems(Range(stems), min_num_stems) THEN self
                     ELSE IF Len(self.lexicon) > 0
                     THEN add_signature(self, PyDict(stem_counts), PyDict(affix_counts),
                                        affix_side)
                     ELSE add_signature(self, PyList(stems), PyList(affixes), affix_side)
        IN  BuildAll(added, Tail(keys), bigrams_, affix_side, min_num_stems)

\* Morphology.build_signatures(bigrams, affix_side, min_num_stems): the
\* morphology after the call and the value returned.
build_signatures(self, bigrams_, affix_side, min_num_stems) ==
    LET cleared == IF affix_side = "prefix"
                   THEN [self EXCEPT !.prefixal_signatures = <<>>]
                   ELSE [self EXCEPT !.suffixal_signatures = <<>>]
        keys == StemSetKeys(bigrams_, affix_side)
    IN  [self   |-> BuildAll(cleared, keys, bigrams_, affix_side, min_num_stems),
         result |-> Len(keys)]

------------------------------------------------------------------------------
(* The learning passes.  A pass gives the morphology after the call.       *)

\* The Word objects of the lexicon after a list of operations on their
\* biographies, each <<"add" or "discard", word, parse>>, for the function
\* func.
RECURSIVE ApplyOps(_, _, _, _)
ApplyOps(lexicon, ops, func, affix_side) ==
    IF Len(ops) = 0 THEN lexicon
    ELSE LET op == ops[1]
             word == Get(lexicon, op[2])
             after == IF op[1] = "add"
                      THEN add_to_biography(word, func, op[3], affix_side)
                      ELSE discard_from_biography(word, func, op[3], affix_side)
         IN  ApplyOps(Put(lexicon, op[2], after), Tail(ops), func, affix_side)

\* The loop "for bigram in bigrams: self.lexicon["".join(bigram)]
\* .add_to_biography(func, Parse(bigram), affix_side)".
AddBigramParses(lexicon, bigrams_, func, affix_side) ==
    LET sorted == SortedTuples(bigrams_)
    IN  ApplyOps(lexicon,
                 [i \in 1..Len(sorted) |-> <<"add", Join(sorted[i], ""), Parse(sorted[i])>>],
                 func, affix_side)

\* self.get_protostems(affix_side).update(d) and the like.
WithProtostems(self, protostems, affix_side) ==
    IF affix_side = "prefix" THEN [self EXCEPT !.prefixal_protostems = protostems]
    ELSE [self EXCEPT !.suffixal_protostems = protostems]

\* A record of the pass that puts it first in the list.
MarkRunFirst(self, func, affix_side) ==
    IF affix_side = "prefix" THEN [self EXCEPT !.prefixal_analyses_run = <<func>> \o @]
    ELSE [self EXCEPT !.suffixal_analyses_run = <<func>> \o @]

\* self.get_analyses_list(affix_side).append(func)
MarkRun(self, func, affix_side) ==
    IF affix_side = "prefix" THEN [self EXCEPT !.prefixal_analyses_run = Append(@, func)]
    ELSE [self EXCEPT !.suffixal_analyses_run = Append(@, func)]

RECURSIVE Update(_, _)
\* d.update(pairs)
Update(d, pairs) ==
    IF Len(pairs) = 0 THEN d
    ELSE Update(Put(d, pairs[1][1], pairs[1][2]), Tail(pairs))

\* find_signatures1: the words, reversed for the prefix side, sorted.
SortedWords(self, affix_side) ==
    IF affix_side = "suffix" THEN Sorted(Keys(self.lexicon))
    ELSE Sorted([i \in 1..Len(self.lexicon) |-> Reverse(self.lexicon[i][1])])

\* The protostems that a loop left after the first pair of words gives.
ProtostemsOfFirstPair(sorted_words, min_stem_len) ==
    {protostem \in {commonprefix(sorted_words[idx], sorted_words[idx + 1]) :
                        idx \in 1..Min({1, Len(sorted_words) - 1})} :
        Len(protostem) >= min_stem_len}

\* Every beginning of a word that has min_stem_len letters or more.
ProtostemsOfEveryBeginning(sorted_words, min_stem_len) ==
    UNION {{SliceTo(sorted_words[idx], k) : k \in min_stem_len..Len(sorted_words[idx])} :
              idx \in 1..Len(sorted_words)}

\* find_signatures1: the longest common prefixes of successive words that
\* have min_stem_len letters or more.
Protostems(sorted_words, min_stem_len) ==
    {protostem \in {commonprefix(sorted_words[idx], sorted_words[idx + 1]) :
                        idx \in 1..(Len(sorted_words) - 1)} :
        Len(protostem) >= min_stem_len}

RECURSIVE Flatten(_)
\* The concatenation of the lists of a list.
Flatten(lists) == IF Len(lists) = 0 THEN <<>> ELSE lists[1] \o Flatten(Tail(lists))

\* find_signatures1: continuations, a dict from the protostems that some
\* word starts with to the list of what follows them.
Continuations(sorted_words, protostems, min_stem_len) ==
    LET hits == [i \in 1..Len(sorted_words) |->
                    LET word == sorted_words[i]
                        lens == SelectSeq([k \in 1..(Len(word) + 1) |-> k - 1],
                                  LAMBDA k : k >= min_stem_len
                                             /\ SliceTo(word, k) \in protostems)
                    IN  [j \in 1..Len(lens) |->
                            <<SliceTo(word, lens[j]), SliceFrom(word, lens[j])>>]]
        found == Flatten(hits)
        prefixes == Unique([i \in 1..Len(found) |-> found[i][1]])
    IN  [i \in 1..Len(prefixes) |->
            <<prefixes[i],
              LET mine == SelectSeq(found, LAMBDA f : f[1] = prefixes[i])
              IN  [j \in 1..Len(mine) |-> mine[j][2]]>>]

\* What find_signatures1 does for the continuation lists keys[1], ...: the
\* bigrams validated and the protostems left for later analysis.
RECURSIVE Validate(_, _, _, _, _)
Validate(acc, keys, continuations, min_num_stems, affix_side) ==
    IF Len(keys) = 0 THEN acc
    ELSE
        LET members == SortedSet({continuations[i][1] : i \in
                           {i \in 1..Len(continuations) :
                               Sorted(continuations[i][2]) = keys[1]}})
            protostems == IF affix_side = "prefix"
                          THEN [i \in 1..Len(members) |-> Reverse(members[i])]
                          ELSE members
            conts == IF affix_side = "prefix"
                     THEN [i \in 1..Len(keys[1]) |-> Reverse(keys[1][i])]
                     ELSE keys[1]
            candidate_bigrams ==
                IF affix_side = "suffix" THEN Range(protostems) \X Range(conts)
                ELSE Range(conts) \X Range(protostems)
            next == IF Len(protostems) >= min_num_stems
                    THEN [acc EXCEPT !.validated_bigrams = @ \cup candidate_bigrams]
                    ELSE [acc EXCEPT !.protostems =
                            Update(@, [i \in 1..Len(protostems) |->
                                          <<protostems[i], Range(conts)>>])]
        IN  Validate(next, Tail(keys), continuations, min_num_stems, affix_side)

\* Morphology.find_signatures1(min_stem_len, min_num_stems, affix_side)
find_signatures1(self, min_stem_len, min_num_stems, affix_side) ==
    LET func == "find_signatures1"
        sorted_words == SortedWords(self, affix_side)
        continuations == Continuations(sorted_words,
                                       Protostems(sorted_words, min_stem_len),
                                       min_stem_len)
        protostem_lists == Unique([i \in 1..Len(continuations) |->
                                      Sorted(continuations[i][2])])
        found == Validate([validated_bigrams |-> {},
                           protostems |-> get_protostems(self, affix_side)],
                          protostem_lists, continuations, min_num_stems, affix_side)
        stored == WithProtostems(self, found.protostems, affix_side)
        told == [stored EXCEPT !.lexicon =
                    AddBigramParses(@, found.validated_bigrams, func, affix_side)]
        built == build_signatures(told, found.validated_bigrams, affix_side,
                                  MIN_NUM_STEMS).self
    IN  MarkRun(built, func, affix_side)

\* sorted(signatures, key=robustness, reverse=True): the sort is stable.
ByRobustness(signatures) ==
    LET n == Len(signatures)
        rank == [i \in 1..n |->
                   Cardinality({j \in 1..n :
                       \/ robustness(signatures[j]) > robustness(signatures[i])
                       \/ (robustness(signatures[j]) = robustness(signatures[i]) /\ j < i)})]
    IN  [k \in 1..n |-> signatures[CHOOSE i \in 1..n : rank[i] = k - 1]]

RECURSIVE BestSigAffixes(_, _, _)
\* find_good_signatures_inside_bad: best_sig_affixes after the signatures
\* were tried in turn.
BestSigAffixes(best, signatures, continuations) ==
    IF Len(signatures) = 0 THEN best
    ELSE LET affixes == Range(Keys(signatures[1].affixes))
         IN  BestSigAffixes(IF affixes \subseteq continuations /\ best \subseteq affixes
                            THEN affixes ELSE best,
                            Tail(signatures), continuations)

\* Morphology.find_good_signatures_inside_bad(affix_side)
find_good_signatures_inside_bad(self, affix_side) ==
    LET func == "find_good_signatures_inside_bad"
        protostems == get_protostems(self, affix_side)
        signatures == ByRobustness(get_signatures(self, affix_side))
        best == [i \in 1..Len(protostems) |->
                    BestSigAffixes({}, signatures, protostems[i][2])]
        new_bigrams == UNION {{IF affix_side = "prefix" THEN <<affix, protostems[i][1]>>
                                ELSE <<protostems[i][1], affix>> : affix \in best[i]} :
                              i \in 1..Len(protostems)}
        bigrams_ == get_bigrams(self, affix_side) \cup new_bigrams
        left == WithProtostems(self,
                    [i \in 1..Len(protostems) |->
                        <<protostems[i][1], protostems[i][2] \ best[i]>>],
                    affix_side)
        told == [left EXCEPT !.lexicon = AddBigramParses(@, bigrams_, func, affix_side)]
        marked == MarkRun(told, func, affix_side)
    IN  build_signatures(marked, bigrams_, affix_side, MIN_NUM_STEMS).self

\* find_good_signatures_inside_bad up to its loop over the bigrams: the
\* morphology with the protostems reduced, and the bigrams.
InsideBadFound(self, affix_side) ==
    LET protostems == get_protostems(self, affix_side)
        signatures == ByRobustness(get_signatures(self, affix_side))
        best == [i \in 1..Len(protostems) |->
                    BestSigAffixes({}, signatures, protostems[i][2])]
        new_bigrams == UNION {{IF affix_side = "prefix" THEN <<affix, protostems[i][1]>>
                                ELSE <<protostems[i][1], affix>> : affix \in best[i]} :
                              i \in 1..Len(protostems)}
    IN  [self    |-> WithProtostems(self,
                        [i \in 1..Len(protostems) |->
                            <<protostems[i][1], protostems[i][2] \ best[i]>>],
                        affix_side),
         bigrams |-> get_bigrams(self, affix_side) \cup new_bigrams]

\* signatures.sort(key=robustness, reverse=True) then
\* signatures.sort(key=number of affixes, reverse=True): the sorts are stable.
ByAffixCount(signatures) ==
    LET sorted == ByRobustness(signatures)
        n == Len(sorted)
        rank == [i \in 1..n |->
                   Cardinality({j \in 1..n :
                       \/ Len(sorted[j].affixes) > Len(sorted[i].affixes)
                       \/ (Len(sorted[j].affixes) = Len(sorted[i].affixes) /\ j < i)})]
    IN  [k \in 1..n |-> sorted[CHOOSE i \in 1..n : rank[i] = k - 1]]

RECURSIVE FirstFit(_, _)
\* widen_signatures: the affixes of the first signature whose affixes are
\* all among the continuations of a protostem (the protostem is then
\* flagged as previously added), or none.
FirstFit(signatures, continuations) ==
    IF Len(signatures) = 0 THEN {}
    ELSE LET affixes == Range(Keys(signatures[1].affixes))
         IN  IF affixes \subseteq continuations THEN affixes
             ELSE FirstFit(Tail(signatures), continuations)

\* widen_signatures up to its loop over the bigrams: the morphology with
\* the protostems reduced, and the bigrams.
WidenFound(self, affix_side) ==
    LET protostems == get_protostems(self, affix_side)
        signatures == ByAffixCount(get_signatures(self, affix_side))
        fit == [i \in 1..Len(protostems) |-> FirstFit(signatures, protostems[i][2])]
        new_bigrams == UNION {{IF affix_side = "prefix" THEN <<affix, protostems[i][1]>>
                                ELSE <<protostems[i][1], affix>> : affix \in fit[i]} :
                              i \in 1..Len(protostems)}
    IN  [self    |-> WithProtostems(self,
                        [i \in 1..Len(protostems) |->
                            <<protostems[i][1], protostems[i][2] \ fit[i]>>],
                        affix_side),
         bigrams |-> get_bigrams(self, affix_side) \cup new_bigrams]

\* Morphology.widen_signatures(affix_side)
widen_signatures(self, affix_side) ==
    LET func == "widen_signatures"
        found == WidenFound(self, affix_side)
        told == [found.self EXCEPT !.lexicon =
                    AddBigramParses(@, found.bigrams, func, affix_side)]
        marked == MarkRun(told, func, affix_side)
    IN  build_signatures(marked, found.bigrams, affix_side, MIN_NUM_STEMS).self

\* The bigrams whose word self.lexicon["".join(bigram)] does not hold: the
\* lookup raises KeyError.
MissingWords(self, bigrams_) ==
    {bigram \in bigrams_ : ~HasKey(self.lexicon, Join(bigram, ""))}

\* The morphology that the loop over the bigrams leaves when it raises
\* KeyError after the bigrams met.
Interrupted(found, met, func, affix_side) ==
    [found.self EXCEPT !.lexicon = AddBigramParses(@, met, func, affix_side)]

MIN_ENTROPY_FOR_BIPARSE_INCLUSION == 1500

NUM_SEED_FAMILIES == 30

RECURSIVE IntStr(_)
\* "%i" % n for n >= 0
IntStr(n) ==
    IF n < 10 THEN Char("0123456789", n + 1)
    ELSE IntStr(n \div 10) \o Char("0123456789", (n % 10) + 1)

\* An add_new_index that counts the prefixes with the counters of the
\* suffixes.
AddNewIndexOneCounter(self, affix, affix_side) ==
    IF affix = NULL_AFFIX \/ Contains(affix, AFFIX_MARKER)
    THEN [self |-> self, result |-> affix]
    ELSE
        LET collisions == self.suffixal_name_collisions
            count == (IF HasKey(collisions, affix) THEN Get(collisions, affix) ELSE 0) + 1
        IN  [self   |-> [self EXCEPT !.suffixal_name_collisions = Put(@, affix, count)],
             result |-> IF affix_side = "prefix" THEN IntStr(count) \o AFFIX_MARKER \o affix
                        ELSE affix \o AFFIX_MARKER \o IntStr(count)]

\* Morphology.add_new_index(affix, affix_side): the morphology after the
\* call and the name returned.
add_new_index(self, affix, affix_side) ==
    IF affix = NULL_AFFIX \/ Contains(affix, AFFIX_MARKER)
    THEN [self |-> self, result |-> affix]
    ELSE
        LET collisions == IF affix_side = "prefix" THEN self.prefixal_name_collisions
                          ELSE self.suffixal_name_collisions
            count == (IF HasKey(collisions, affix) THEN Get(collisions, affix) ELSE 0) + 1
        IN  IF affix_side = "prefix"
            THEN [self   |-> [self EXCEPT !.prefixal_name_collisions = Put(@, affix, count)],
                  result |-> IntStr(count) \o AFFIX_MARKER \o affix]
            ELSE [self   |-> [self EXCEPT !.suffixal_name_collisions = Put(@, affix, count)],
                  result |-> affix \o AFFIX_MARKER \o IntStr(count)]

\* split_affixes: switch_if_needed(my_tuple, affix_side)
switch_if_needed(my_tuple, affix_side) ==
    IF affix_side = "prefix"
    THEN [i \in 1..Len(my_tuple) |-> my_tuple[Len(my_tuple) + 1 - i]]
    ELSE my_tuple

\* split_affixes: word_to_analyses[word], the pairs (stem, affix string) of
\* the signatures that have the word among their bigrams.
Analyses(self, word, affix_side) ==
    LET signatures == get_signatures(self, affix_side)
    IN  UNION {{<<StemOf(b, affix_side), affix_string(signatures[i])>> :
                   b \in {b \in bigrams(signatures[i]) : Join(b, "") = word}} :
               i \in 1..Len(signatures)}

\* split_affixes: the pairs of analyses of a word, the one with the
\* shorter stem first.
PairsOfAnalyses(analyses) ==
    {pair \in analyses \X analyses :
        \/ Len(pair[1][1]) < Len(pair[2][1])
        \/ (Len(pair[1][1]) = Len(pair[2][1]) /\ TupleLt(pair[1], pair[2]))}

\* split_affixes: the pairs of analyses of all the words that have more
\* than one analysis.
AllPairsOfAnalyses(self, affix_side) ==
    LET words == {Join(b, "") : b \in get_bigrams(self, affix_side)}
    IN  UNION {PairsOfAnalyses(Analyses(self, word, affix_side)) : word \in words}

\* split_affixes: long_stem[len(short_stem):] or long_stem[:-len(short_stem)]
Diff(short_stem, long_stem, affix_side) ==
    IF affix_side = "suffix" THEN SliceFrom(long_stem, Len(short_stem))
    ELSE IF Len(short_stem) = 0 THEN ""
    ELSE SliceTo(long_stem, Max({0, Len(long_stem) - Len(short_stem)}))

\* split_affixes: the pairs whose long stem signature has an edge entropy
\* of MIN_ENTROPY_FOR_BIPARSE_INCLUSION or more.
AdmittedPairs(self, affix_side) ==
    {pair \in AllPairsOfAnalyses(self, affix_side) :
        LET edge_entropy == get_edge_entropy(get_signature(self, pair[2][2], affix_side), 1)
        IN  /\ edge_entropy.kind = "float"
            /\ edge_entropy.milli >= MIN_ENTROPY_FOR_BIPARSE_INCLUSION}

\* split_affixes: the exceptions that get_edge_entropy raises on the long
\* stem signatures (raised before the morphology is touched).
SplitExceptions(self, affix_side) ==
    {edge_entropy \in
        {get_edge_entropy(get_signature(self, pair[2][2], affix_side), 1) :
            pair \in AllPairsOfAnalyses(self, affix_side)} :
        edge_entropy.kind # "float"}

\* split_affixes: the keys of biparse_to_stems.
Biparses(self, affix_side) ==
    {<<Diff(pair[1][1], pair[2][1], affix_side), pair[1][2], pair[2][2]>> :
        pair \in AdmittedPairs(self, affix_side)}

\* split_affixes: biparse_to_stems[biparse]
ShortStems(self, biparse, affix_side) ==
    {pair[1][1] : pair \in
        {pair \in AdmittedPairs(self, affix_side) :
            <<Diff(pair[1][1], pair[2][1], affix_side), pair[1][2], pair[2][2]>> = biparse}}

\* split_affixes: what the loops over one biparse do to the bigrams and to
\* the biographies, in order.
BiparseOps(short_stems, diff, indexed_diff, short_affixes, long_affixes, affix_side) ==
    LET first == [i \in 1..Len(short_stems) |->
            <<<<"add", switch_if_needed(<<short_stems[i], indexed_diff>>, affix_side)>>>>
            \o Flatten([j \in 1..Len(short_affixes) |->
                  IF StartsWith(short_affixes[j], diff)
                  THEN <<<<"discard",
                           switch_if_needed(<<short_stems[i], short_affixes[j]>>, affix_side)>>>>
                  ELSE <<>>])]
        second == [j \in 1..Len(long_affixes) |->
            <<<<"add", switch_if_needed(<<indexed_diff, long_affixes[j]>>, affix_side)>>>>
            \o Flatten([i \in 1..Len(short_stems) |->
                  LET new_stem == IF affix_side = "suffix" THEN short_stems[i] \o diff
                                  ELSE diff \o short_stems[i]
                  IN  <<<<"discard",
                          switch_if_needed(<<new_stem, long_affixes[j]>>, affix_side)>>,
                        <<"parse",
                          Join(switch_if_needed(<<new_stem, long_affixes[j]>>, affix_side), ""),
                          switch_if_needed(<<short_stems[i], indexed_diff, long_affixes[j]>>,
                                           affix_side)>>>>])]
    IN  Flatten(first) \o Flatten(second)

RECURSIVE ApplyBigramOps(_, _)
\* The bigrams after the operations "add" and "discard" of ops.
ApplyBigramOps(bigrams_, ops) ==
    IF Len(ops) = 0 THEN bigrams_
    ELSE ApplyBigramOps(IF ops[1][1] = "add" THEN bigrams_ \cup {ops[1][2]}
                        ELSE IF ops[1][1] = "discard" THEN bigrams_ \ {ops[1][2]}
                        ELSE bigrams_,
                        Tail(ops))

\* The operations on the biographies that go with ops: a bigram discarded
\* is discarded as a parse of its word, a parse is added to its word.
BiographyOps(ops) ==
    Flatten([i \in 1..Len(ops) |->
        IF ops[i][1] = "discard"
        THEN <<<<"discard", Join(ops[i][2], ""), Parse(ops[i][2])>>>>
        ELSE IF ops[i][1] = "parse"
        THEN <<<<"add", ops[i][2], Parse(ops[i][3])>>>>
        ELSE <<>>])

RECURSIVE SplitAll(_, _, _, _)
\* split_affixes: the loop over the biparses, taken in the given order;
\* gives the morphology and the bigrams.
SplitAll(acc, biparses, before, affix_side) ==
    IF Len(biparses) = 0 THEN acc
    ELSE
        LET func == "split_affixes"
            biparse == biparses[1]
            indexed == add_new_index(acc.self, biparse[1], affix_side)
            ops == BiparseOps(SortedSet(ShortStems(before, biparse, affix_side)),
                              biparse[1], indexed.result,
                              Keys(get_signature(before, biparse[2], affix_side).affixes),
                              Keys(get_signature(before, biparse[3], affix_side).affixes),
                              affix_side)
        IN  SplitAll([self    |-> [indexed.self EXCEPT !.lexicon =
                                      ApplyOps(@, BiographyOps(ops), func, affix_side)],
                      bigrams |-> ApplyBigramOps(acc.bigrams, ops)],
                     Tail(biparses), before, affix_side)

\* split_affixes: "Copy current word parses".
CopyParses(lexicon, affix_side) ==
    [i \in 1..Len(lexicon) |->
        LET word == lexicon[i][2]
        IN  <<lexicon[i][1],
              WithBiography(word, "split_affixes",
                            get_biography(word, "split_affixes", affix_side)
                                \cup get_parses(word, affix_side),
                            affix_side)>>]

\* The orders in which split_affixes may meet the biparses (the order of
\* a dict filled while iterating over sets).
BiparseOrders(self, affix_side) == Reorderings(SortedTuples(Biparses(self, affix_side)))

\* Morphology.split_affixes(affix_side), the biparses taken in the order
\* given.
split_affixes(self, affix_side, biparses) ==
    LET func == "split_affixes"
        copied == [self EXCEPT !.lexicon = CopyParses(@, affix_side)]
        split == SplitAll([self |-> copied, bigrams |-> get_bigrams(self, affix_side)],
                          biparses, self, affix_side)
        built == build_signatures(split.self, split.bigrams, affix_side, 1).self
    IN  MarkRun(built, func, affix_side)

\* Family.__init__(nucleus, morphology, affix_side=affix_side)
Family(nucleus, affix_side) ==
    [nucleus |-> nucleus, children |-> {}, affix_side |-> affix_side]

\* A containment that one shared affix is enough for.
ContainsSome(s, affix_string_) ==
    Range(Split(affix_string_, AFFIX_DELIMITER))
        \cap {Str(s.affixes[i][1]) : i \in 1..Len(s.affixes)} # {}

\* Signature.contains(affix_string)
contains(s, affix_string_) ==
    Range(Split(affix_string_, AFFIX_DELIMITER))
        \subseteq {Str(s.affixes[i][1]) : i \in 1..Len(s.affixes)}

\* The families sorted without reverse=True: smallest nucleus first.
BySmallestNucleus(families) ==
    LET n == Len(families)
        size(i) == Len(Split(families[i].nucleus, AFFIX_DELIMITER))
        rank == [i \in 1..n |->
                   Cardinality({j \in 1..n :
                       size(j) < size(i) \/ (size(j) = size(i) /\ j < i)})]
    IN  [k \in 1..n |-> families[CHOOSE i \in 1..n : rank[i] = k - 1]]

\* sorted(families, key=number of affixes of the nucleus, reverse=True)
ByNucleusSize(families) ==
    LET n == Len(families)
        size(i) == Len(Split(families[i].nucleus, AFFIX_DELIMITER))
        rank == [i \in 1..n |->
                   Cardinality({j \in 1..n :
                       size(j) > size(i) \/ (size(j) = size(i) /\ j < i)})]
    IN  [k \in 1..n |-> families[CHOOSE i \in 1..n : rank[i] = k - 1]]

RECURSIVE Adopt(_, _, _)
\* create_families: the loop that adds every remaining signature robust
\* enough to the first family whose nucleus it contains.
Adopt(families, signatures, min_robustness) ==
    IF Len(signatures) = 0 THEN families
    ELSE
        LET signature == signatures[1]
            hosts == {i \in 1..Len(families) : contains(signature, families[i].nucleus)}
        IN  Adopt(IF robustness(signature) < min_robustness \/ hosts = {} THEN families
                  ELSE [families EXCEPT ![Min(hosts)].children =
                            @ \cup {affix_string(signature)}],
                  Tail(signatures), min_robustness)

\* Morphology.create_families(num_seed_families, min_robustness, affix_side)
create_families(self, num_seed_families, min_robustness, affix_side) ==
    LET signatures == ByRobustness(get_signatures(self, affix_side))
        actual_num_seed_families == Min({NUM_SEED_FAMILIES, Len(signatures)})
        seeds == [i \in 1..actual_num_seed_families |->
                     Family(affix_string(signatures[i]), affix_side)]
        families == Adopt(ByNucleusSize(seeds),
                          SubSeq(signatures, actual_num_seed_families + 1, Len(signatures)),
                          min_robustness)
    IN  IF affix_side = "prefix" THEN [self EXCEPT !.prefixal_families = PyList(families)]
        ELSE [self EXCEPT !.suffixal_families = PyList(families)]

\* learn_from_wordlist: reset, then the lexicon filled with the (lowercased)
\* words and their counts.
Populate(self, wordlist, lowercase_input) ==
    LET words == IF lowercase_input THEN [i \in 1..Len(wordlist) |-> Lower(wordlist[i])]
                 ELSE wordlist
        word_counts == Counter(words)
    IN  [reset(self) EXCEPT !.lexicon =
            [i \in 1..Len(word_counts) |->
                <<word_counts[i][1], Word(word_counts[i][1], word_counts[i][2])>>]]

------------------------------------------------------------------------------
(* SigSpec: Signatures are built from lists of stems and affixes, and      *)
(* queried.  EqSpec: a second Signature is built from related arguments.   *)

Sides == {"suffix", "prefix"}

StemPool == {"want", "add", "dd:1"}

AffixPool == {NULL_AFFIX, "ed", "ing", "ed:1"}

Lists(pool) == UNION {[1..n -> pool] : n \in 0..MaxListLen}

\* list without its i-th element.
Without(list, i) == SubSeq(list, 1, i - 1) \o SubSeq(list, i + 1, Len(list))

\* The same elements in another order, or one occurrence more or less.
Variants(list) ==
    Reorderings(list)
        \cup {Append(list, list[i]) : i \in 1..Len(list)}
        \cup {Without(list, i) : i \in 1..Len(list)}

\* Nothing constructed and no call made.
Idle ==
    /\ sig = None
    /\ other = None
    /\ ctor = None
    /\ null_instance = None
    /\ null_refs = <<>>
    /\ heap = 0
    /\ morph = None
    /\ fresh = None
    /\ ncalls = 0
    /\ call = None
    /\ ret = None

SigInit == Idle

\* sig = Signature(stems, affixes, affix_side)
NewSignature ==
    /\ sig = None
    /\ \E stems \in Lists(StemPool), affixes \in Lists(AffixPool), side \in Sides :
        /\ sig' = Signature(PyList(stems), PyList(affixes), side)
        /\ ctor' = [stems |-> stems, affixes |-> affixes, affix_side |-> side]
    /\ UNCHANGED <<other, ret, nullVars, morphVars>>

\* other = Signature(stems2, affixes2, side2)
NewOther ==
    /\ sig # None
    /\ other = None
    /\ \E stems2 \in Variants(ctor.stems), affixes2 \in Reorderings(ctor.affixes),
          side2 \in Sides :
        /\ other' = Signature(PyList(stems2), PyList(affixes2), side2)
        /\ ctor' = [stems |-> ctor.stems, affixes |-> ctor.affixes,
                    affix_side |-> ctor.affix_side, stems2 |-> stems2,
                    affixes2 |-> affixes2, side2 |-> side2]
    /\ UNCHANGED <<sig, ret, nullVars, morphVars>>

\* ret = sig.get_edge_entropy(num_letters)
GetEdgeEntropy ==
    /\ sig # None
    /\ ret = None
    /\ \E num_letters \in 0..MaxNumLetters :
        ret' = [call |-> "get_edge_entropy", num_letters |-> num_letters,
                result |-> get_edge_entropy(sig, num_letters)]
    /\ UNCHANGED <<sigVars, nullVars, morphVars>>

SigNext == NewSignature \/ GetEdgeEntropy

SigSpec == SigInit /\ [][SigNext]_vars

EqNext == NewSignature \/ NewOther

EqSpec == SigInit /\ [][EqNext]_vars

------------------------------------------------------------------------------
(* Claims about Signature.                                                 *)

\* The sum of the lengths of the strings of a set.
RECURSIVE TotalLen(_)
TotalLen(S) ==
    IF S = {} THEN 0
    ELSE LET x == CHOOSE x \in S : TRUE IN Len(x) + TotalLen(S \ {x})

\* The distinct spellings (disambiguation index removed) of a list.
Spellings(list) == {strip_index(list[i]) : i \in 1..Len(list)}

\* How often x occurs in list.
Occurrences(list, x) == Cardinality({i \in 1..Len(list) : list[i] = x})

SameBag(l1, l2) ==
    \A x \in Range(l1) \cup Range(l2) : Occurrences(l1, x) = Occurrences(l2, x)

\* C1: the robustness of every Signature is (letters of its distinct stems)
\* x (number of affixes - 1) + (letters of its distinct affixes) x (number
\* of stems - 1), the NULL affix counting for no letter and the counts for
\* nothing, which is the letters of all stem+affix words less the letters
\* of the stems and of the affixes (spellings taken without their index).
C1_Robustness ==
    sig # None =>
        LET S == Spellings(ctor.stems)
            A == Spellings(ctor.affixes)
            words == Cardinality(A) * TotalLen(S) + Cardinality(S) * TotalLen(A)
        IN  /\ robustness(sig) = TotalLen(S) * (Cardinality(A) - 1)
                                    + TotalLen(A) * (Cardinality(S) - 1)
            /\ robustness(sig) = words - TotalLen(S) - TotalLen(A)

\* want:1, add:2 with NULL, ed, ing has robustness 19.
C1_Witness ==
    /\ sig # None
    /\ ctor.stems = <<"want", "add", "add">>
    /\ ctor.affixes = <<NULL_AFFIX, "ed", "ing">>
    /\ robustness(sig) = 19

\* C2: two Signatures are equal exactly when their stem lists hold the same
\* stems the same number of times, their affix lists likewise, and their
\* sides agree: the order of the lists plays no role, the multiplicities do.
C2_Equality ==
    other # None =>
        (SigEq(sig, other) <=>
            /\ SameBag(ctor.stems, ctor.stems2)
            /\ SameBag(ctor.affixes, ctor.affixes2)
            /\ ctor.affix_side = ctor.side2)

\* add, add, want against want, add, add: equal.
C2_Witness ==
    /\ other # None
    /\ ctor.stems = <<"want", "add", "add">>
    /\ ctor.stems2 = <<"add", "add", "want">>
    /\ ctor.affixes # ctor.affixes2
    /\ SigEq(sig, other)

\* C3: the affix string is the affixes in sorted order, NULL displayed as
\* "NULL", joined by "=", whatever the order they were inserted in.
C3_AffixString ==
    sig # None =>
        LET sorted == SortedSet(Range(ctor.affixes))
        IN  /\ affix_string(sig) =
                 Join([i \in 1..Len(sorted) |-> Str(sorted[i])], AFFIX_DELIMITER)
            /\ Range(ctor.affixes) = {NULL_AFFIX, "ed", "ing"}
                 => affix_string(sig) = "NULL=ed=ing"

\* ing, NULL, ed inserted in that order give NULL=ed=ing.
C3_Witness ==
    /\ sig # None
    /\ ctor.affixes = <<"ing", NULL_AFFIX, "ed">>
    /\ affix_string(sig) = "NULL=ed=ing"

\* The last n letters of s.
FinalLetters(s, n) == SubSeq(s, Len(s) - n + 1, Len(s))

\* C7: get_edge_entropy(num_letters) raises ValueError when a stem (index
\* removed) has fewer than num_letters letters, and otherwise returns the
\* entropy of the distribution of the stems' final num_letters letters.
C7_EdgeEntropy ==
    ret # None =>
        LET stems == Spellings(ctor.stems)
            n == ret.num_letters
            endings == SortedSet({FinalLetters(s, n) : s \in stems})
            counts == [i \in 1..Len(endings) |->
                         <<endings[i],
                           Cardinality({s \in stems : FinalLetters(s, n) = endings[i]})>>]
        IN  IF \E s \in stems : Len(s) < n
            THEN ret.result.kind = "ValueError"
            ELSE ret.result.kind = "float" /\ ret.result = entropy(counts)

------------------------------------------------------------------------------
(* NullSpec: class NULLAffix(str), a singleton whose content is empty.     *)

MaxConstructions == 3

\* The strings the NULL affix is concatenated with.
StringPool == {s \o a : s \in {"", "want", "add", "test", "dd:1"}, a \in AffixPool}

\* A NULLAffix() that allocates a new object at every call.
NULLAffixFresh(instance, allocated) ==
    [instance  |-> [id |-> allocated + 1, content |-> ""],
     allocated |-> allocated + 1]

\* NULLAffix.__new__(cls): str.__new__(cls) allocates an empty str, once;
\* gives the class attribute and the allocation count after the call (the
\* call returns the class attribute).
NULLAffix(instance, allocated) ==
    IF instance = None
    THEN [instance  |-> [id |-> allocated + 1, content |-> ""],
          allocated |-> allocated + 1]
    ELSE [instance |-> instance, allocated |-> allocated]

NullInit == Idle

\* affix = NULLAffix()
NewNULLAffix ==
    /\ Len(null_refs) < MaxConstructions
    /\ LET new == NULLAffix(null_instance, heap)
       IN  /\ null_instance' = new.instance
           /\ heap' = new.allocated
           /\ null_refs' = Append(null_refs, new.instance)
    /\ ret' = None
    /\ UNCHANGED <<sigVars, morphVars>>

\* ret = s + affix
Concatenate ==
    /\ null_refs # <<>>
    /\ \E s \in StringPool :
        ret' = [call |-> "s + affix", s |-> s,
                result |-> s \o null_refs[Len(null_refs)].content]
    /\ UNCHANGED <<sigVars, nullVars, morphVars>>

\* ret = affix + s
ConcatenateLeft ==
    /\ null_refs # <<>>
    /\ \E s \in StringPool :
        ret' = [call |-> "affix + s", s |-> s,
                result |-> null_refs[Len(null_refs)].content \o s]
    /\ UNCHANGED <<sigVars, nullVars, morphVars>>

\* ret = len(affix)
LenNULLAffix ==
    /\ null_refs # <<>>
    /\ ret' = [call |-> "len", result |-> Len(null_refs[Len(null_refs)].content)]
    /\ UNCHANGED <<sigVars, nullVars, morphVars>>

\* ret = str(affix)
StrNULLAffix ==
    /\ null_refs # <<>>
    /\ ret' = [call |-> "str", result |-> Str(null_refs[Len(null_refs)].content)]
    /\ UNCHANGED <<sigVars, nullVars, morphVars>>

NullNext ==
    NewNULLAffix \/ Concatenate \/ ConcatenateLeft \/ LenNULLAffix \/ StrNULLAffix

NullSpec == NullInit /\ [][NullNext]_vars

\* C4: the NULL affix is one shared value, the empty string under
\* concatenation and length, displayed as "NULL": s + NULL = s for every
\* string s, len(NULL) = 0, str(NULL) = "NULL", and every construction
\* yields the same object (the model's NULL_AFFIX is that value).
C4_NullAffix ==
    /\ \A i, j \in 1..Len(null_refs) :
          null_refs[i].id = null_refs[j].id /\ null_refs[i].content = NULL_AFFIX
    /\ heap <= 1
    /\ ret # None =>
        /\ ret.call = "s + affix" => ret.result = ret.s
        /\ ret.call = "affix + s" => ret.result = ret.s
        /\ ret.call = "len" => ret.result = 0
        /\ ret.call = "str" => ret.result = "NULL"

\* Three constructions made, then test + NULL evaluated.
C4_Witness ==
    /\ Len(null_refs) = MaxConstructions
    /\ ret # None
    /\ ret.call = "s + affix"
    /\ ret.s = "test"
    /\ ret.result = "test"

------------------------------------------------------------------------------
(* StoreSpec: a Morphology is constructed from signatures, then its store  *)
(* of signatures is read and written through the public methods.           *)

MaxCalls == 1

MaxMinNumStems == 3

\* The signatures a Morphology is constructed from.
Fixtures ==
    <<Signature(PyList(<<"want", "add", "add">>), PyList(<<NULL_AFFIX, "ed", "ing">>), "suffix"),
      Signature(PyList(<<"cr", "dr">>), PyList(<<"y", "ied">>), "suffix"),
      Signature(PyList(<<"do", "wind">>), PyList(<<"un", "re">>), "prefix"),
      Signature(PyList(<<"make", "create">>), PyList(<<"re", NULL_AFFIX>>), "prefix")>>

\* The elements of list whose index is in I, in order.
Pick(list, I) ==
    LET idx == SortedSet({Char("123456789", i) : i \in I})
    IN  [k \in 1..Len(idx) |-> list[CHOOSE i \in I : Char("123456789", i) = idx[k]]]

\* The arguments of add_signature.
AddedStems == {<<"boot">>, <<"want", "add">>}

AddedAffixes == {<<NULL_AFFIX, "s">>, <<"ing", NULL_AFFIX, "ed">>, <<"re", "un">>}

\* The affix strings asked for.
KeyPool == {"dummy", "NULL=ed=ing", "ied=y", "re=un", "NULL=re", "NULL=s"}

\* The bigrams given to build_signatures: pairs (stem, suffix) or
\* (prefix, stem).
BigramPool(affix_side) ==
    IF affix_side = "suffix"
    THEN {"want", "add", "boot"} \X {NULL_AFFIX, "s"}
    ELSE {NULL_AFFIX, "re"} \X {"do", "wind", "make"}

StoreInit == Idle

\* morph = Morphology(*signatures)
NewMorphology ==
    /\ morph = None
    /\ \E I \in SUBSET (1..Len(Fixtures)) : morph' = Morphology(Pick(Fixtures, I))
    /\ UNCHANGED <<fresh, ncalls, call, ret, sigVars, nullVars>>

\* morph.add_signature(stems, affixes, affix_side)
AddSignature ==
    /\ morph # None
    /\ call = None
    /\ ncalls < MaxCalls
    /\ \E stems \in AddedStems, affixes \in AddedAffixes, affix_side \in Sides :
        /\ morph' = add_signature(morph, PyList(stems), PyList(affixes), affix_side)
        /\ ret' = [call |-> "add_signature", stems |-> stems, affixes |-> affixes,
                   affix_side |-> affix_side]
    /\ ncalls' = ncalls + 1
    /\ UNCHANGED <<fresh, call, sigVars, nullVars>>

\* morph.remove_signature(affix_string, affix_side); del raises KeyError
\* for a key that is not stored.
RemoveSignature ==
    /\ morph # None
    /\ call = None
    /\ ncalls < MaxCalls
    /\ \E affix_string_ \in KeyPool, affix_side \in Sides :
        IF HasKey(signatures_dict(morph, affix_side), affix_string_)
        THEN /\ morph' = remove_signature(morph, affix_string_, affix_side)
             /\ ret' = [call |-> "remove_signature", affix_string |-> affix_string_,
                        affix_side |-> affix_side, result |-> None]
        ELSE /\ morph' = morph
             /\ ret' = [call |-> "remove_signature", affix_string |-> affix_string_,
                        affix_side |-> affix_side, result |-> KeyError(affix_string_)]
    /\ ncalls' = ncalls + 1
    /\ UNCHANGED <<fresh, call, sigVars, nullVars>>

\* ret = morph.get_signature(affix_string, affix_side)
GetSignature ==
    /\ morph # None
    /\ call = None
    /\ ncalls < MaxCalls
    /\ \E affix_string_ \in KeyPool, affix_side \in Sides :
        ret' = [call |-> "get_signature", affix_string |-> affix_string_,
                affix_side |-> affix_side,
                result |-> get_signature(morph, affix_string_, affix_side)]
    /\ ncalls' = ncalls + 1
    /\ UNCHANGED <<morph, fresh, call, sigVars, nullVars>>

\* ret = morph.build_signatures(bigrams, affix_side, min_num_stems)
BuildSignatures ==
    /\ morph # None
    /\ call = None
    /\ ncalls < MaxCalls
    /\ \E affix_side \in Sides, min_num_stems \in 1..MaxMinNumStems :
        \E bigrams_ \in SUBSET BigramPool(affix_side) :
            LET done == build_signatures(morph, bigrams_, affix_side, min_num_stems)
            IN  /\ morph' = done.self
                /\ ret' = [call |-> "build_signatures", bigrams |-> bigrams_,
                           affix_side |-> affix_side, min_num_stems |-> min_num_stems,
                           result |-> done.result]
    /\ ncalls' = ncalls + 1
    /\ UNCHANGED <<fresh, call, sigVars, nullVars>>

StoreNext ==
    NewMorphology \/ AddSignature \/ RemoveSignature \/ GetSignature \/ BuildSignatures

StoreSpec == StoreInit /\ [][StoreNext]_vars

\* C5: build_signatures(bigrams, side, min_num_stems) groups the stems by
\* their exact set of affixes in the bigrams and leaves on that side exactly
\* one signature for every affix set that at least min_num_stems stems
\* have, holding those stems and those affixes; a stem whose affix set has
\* fewer stems is in no signature of the side.
C5_BuildSignatures ==
    (ret # None /\ ret.call = "build_signatures") =>
        LET side == ret.affix_side
            stems == {StemOf(b, side) : b \in ret.bigrams}
            AffixSet(stem) == {AffixOf(b, side) : b \in {b \in ret.bigrams : StemOf(b, side) = stem}}
            Group(A) == {stem \in stems : AffixSet(stem) = A}
            kept == {A \in {AffixSet(stem) : stem \in stems} :
                        Cardinality(Group(A)) >= ret.min_num_stems}
            built == get_signatures(morph, side)
        IN  /\ Len(built) = Cardinality(kept)
            /\ \A A \in kept : \E i \in 1..Len(built) :
                  /\ Range(Keys(built[i].affixes)) = A
                  /\ Range(Keys(built[i].stems)) = Group(A)
                  /\ built[i].affix_side = side
            /\ \A stem \in stems : AffixSet(stem) \notin kept =>
                  \A i \in 1..Len(built) : ~HasKey(built[i].stems, stem)

\* want and add have NULL and s, boot has NULL only, min_num_stems = 2, on
\* a morphology that had suffixal signatures: one signature, without boot.
C5_Witness ==
    /\ ret # None
    /\ ret.call = "build_signatures"
    /\ ret.affix_side = "suffix"
    /\ ret.min_num_stems = 2
    /\ ret.bigrams = {<<"want", NULL_AFFIX>>, <<"want", "s">>, <<"add", NULL_AFFIX>>,
                      <<"add", "s">>, <<"boot", NULL_AFFIX>>}
    /\ Keys(morph.suffixal_signatures) = <<"NULL=s">>
    /\ Range(Keys(morph.suffixal_signatures[1][2].stems)) = {"want", "add"}
    /\ Len(morph.prefixal_signatures) = 2

\* A step of get_signature for a key that is not stored on the side.
NotFoundStep ==
    /\ ret' # None
    /\ ret' # ret
    /\ ret'.call = "get_signature"
    /\ ~HasKey(signatures_dict(morph, ret'.affix_side), ret'.affix_string)

\* C6 as stated: get_signature for a key that is not stored on the side
\* raises ValueError with the requested key and the side in the message,
\* returns no default and leaves the morphology unchanged.
C6_MessageHasKey ==
    [][NotFoundStep =>
        /\ ret'.result.kind = "ValueError"
        /\ Contains(ret'.result.message, ret'.affix_string)
        /\ Contains(ret'.result.message, ret'.affix_side)
        /\ morph' = morph]_vars

\* C6, amended: get_signature for a key that is not stored on the side
\* raises ValueError with a fixed message that names the side (not the
\* requested key), returns no default and leaves the morphology unchanged.
C6_NotFound ==
    [][NotFoundStep =>
        /\ ret'.result.kind = "ValueError"
        /\ ret'.result.message = "No " \o ret'.affix_side
                \o "al signature matches the requested affix string"
        /\ Contains(ret'.result.message, ret'.affix_side)
        /\ ~Contains(ret'.result.message, ret'.affix_string)
        /\ morph' = morph]_vars

\* get_signature("dummy") on the morphology of the four signatures raised
\* ValueError.
C6_Witness ==
    /\ ret # None
    /\ ret.call = "get_signature"
    /\ ret.affix_string = "dummy"
    /\ ret.affix_side = "suffix"
    /\ Len(morph.suffixal_signatures) = 2
    /\ ret.result.kind = "ValueError"

------------------------------------------------------------------------------
(* LearnSpec: a Morphology is constructed, a signature may be added, and   *)
(* learn_from_wordlist is called, once or again; a step is one stage of    *)
(* the call.  The same stages run on fresh, a Morphology() constructed     *)
(* when the call began.                                                    *)

MaxLearns == 2

MaxMinStemLen == 2

MIN_ROBUSTNESS_FOR_FAMILY_INCLUSION == 100

\* The word lists learnt from.
Wants == <<"wants", "wanted", "wanting", "adds", "added", "adding">>

Wordlists ==
    {Wants,
     <<"Test", "data", "test">>,
     <<"bowled", "bowling", "bowlings", "walked", "walking", "walkings",
       "cat", "cats", "dom", "doms">>,
     <<"want", "wants", "wanted", "add", "adds", "added",
       "boot", "boots", "booted", "booting">>}

LearnInit == Idle

\* morph.learn_from_wordlist(wordlist, lowercase_input, min_stem_len,
\* min_num_stems, num_seed_families, min_robustness, affix_side), up to the
\* lexicon filled; the call has no outcome yet.
LearnFromWordlist ==
    /\ morph # None
    /\ IF call = None THEN TRUE ELSE call.pc \in {"returned", "raised"}
    /\ ncalls < MaxLearns
    /\ \E wordlist \in Wordlists, lowercase_input \in BOOLEAN,
          min_stem_len \in 1..MaxMinStemLen, min_num_stems \in {1, MIN_NUM_STEMS},
          num_seed_families \in {1, NUM_SEED_FAMILIES}, affix_side \in Sides :
        /\ morph' = Populate(morph, wordlist, lowercase_input)
        /\ fresh' = Populate(Morphology(<<>>), wordlist, lowercase_input)
        /\ call' = [wordlist          |-> wordlist,
                    lowercase_input   |-> lowercase_input,
                    min_stem_len      |-> min_stem_len,
                    min_num_stems     |-> min_num_stems,
                    num_seed_families |-> num_seed_families,
                    min_robustness    |-> MIN_ROBUSTNESS_FOR_FAMILY_INCLUSION,
                    affix_side        |-> affix_side,
                    exception         |-> None,
                    pc                |-> "find_suffixal_signatures"]
    /\ ncalls' = ncalls + 1
    /\ ret' = None
    /\ UNCHANGED <<sigVars, nullVars>>

\* self.find_signatures1(min_stem_len, min_num_stems, affix_side="suffix")
FindSuffixalSignatures ==
    /\ call # None
    /\ call.pc = "find_suffixal_signatures"
    /\ morph' = find_signatures1(morph, call.min_stem_len, call.min_num_stems, "suffix")
    /\ fresh' = find_signatures1(fresh, call.min_stem_len, call.min_num_stems, "suffix")
    /\ call' = [call EXCEPT !.pc = "find_prefixal_signatures"]
    /\ UNCHANGED <<ncalls, ret, sigVars, nullVars>>

\* self.find_signatures1(min_stem_len, min_num_stems, affix_side="prefix")
FindPrefixalSignatures ==
    /\ call # None
    /\ call.pc = "find_prefixal_signatures"
    /\ morph' = find_signatures1(morph, call.min_stem_len, call.min_num_stems, "prefix")
    /\ fresh' = find_signatures1(fresh, call.min_stem_len, call.min_num_stems, "prefix")
    /\ call' = [call EXCEPT !.pc = "find_good_signatures_inside_bad"]
    /\ UNCHANGED <<ncalls, ret, sigVars, nullVars>>

\* self.find_good_signatures_inside_bad(affix_side)
FindGoodSignaturesInsideBad ==
    /\ call # None
    /\ call.pc = "find_good_signatures_inside_bad"
    /\ morph' = find_good_signatures_inside_bad(morph, call.affix_side)
    /\ fresh' = find_good_signatures_inside_bad(fresh, call.affix_side)
    /\ call' = [call EXCEPT !.pc = "split_affixes"]
    /\ UNCHANGED <<ncalls, ret, sigVars, nullVars>>

\* self.split_affixes(affix_side); an exception of get_edge_entropy leaves
\* the call.
SplitAffixes ==
    /\ call # None
    /\ call.pc = "split_affixes"
    /\ IF SplitExceptions(morph, call.affix_side) # {}
       THEN /\ \E exception \in SplitExceptions(morph, call.affix_side) :
                 call' = [call EXCEPT !.pc = "raised", !.exception = exception]
            /\ UNCHANGED <<morph, fresh>>
       ELSE /\ \E biparses \in BiparseOrders(morph, call.affix_side) :
                 /\ morph' = split_affixes(morph, call.affix_side, biparses)
                 /\ fresh' = split_affixes(fresh, call.affix_side, biparses)
            /\ call' = [call EXCEPT !.pc = "create_families"]
    /\ UNCHANGED <<ncalls, ret, sigVars, nullVars>>

\* self.create_families(num_seed_families, min_robustness, affix_side), and
\* the return.
CreateFamilies ==
    /\ call # None
    /\ call.pc = "create_families"
    /\ morph' = create_families(morph, call.num_seed_families, call.min_robustness,
                                call.affix_side)
    /\ fresh' = create_families(fresh, call.num_seed_families, call.min_robustness,
                                call.affix_side)
    /\ call' = [call EXCEPT !.pc = "returned"]
    /\ UNCHANGED <<ncalls, ret, sigVars, nullVars>>

LearnNext ==
    \/ NewMorphology
    \/ AddSignature
    \/ LearnFromWordlist
    \/ FindSuffixalSignatures
    \/ FindPrefixalSignatures
    \/ FindGoodSignaturesInsideBad
    \/ SplitAffixes
    \/ CreateFamilies

LearnSpec == LearnInit /\ [][LearnNext]_vars

\* The words of the running call as the lexicon is to hold them.
WordsGiven ==
    [i \in 1..Len(call.wordlist) |->
        IF call.lowercase_input THEN Lower(call.wordlist[i]) ELSE call.wordlist[i]]

\* C8: at every stage of a learn_from_wordlist call and after it, the
\* morphology, whatever it held before the call (signatures given to the
\* constructor or added, an earlier learned lexicon, protostems, families,
\* collision counters, lists of passes run), is in the state that the same
\* call gives a fresh Morphology, and its lexicon holds exactly the distinct
\* (lowercased when requested) words of the list with their numbers of
\* occurrences.
C8_FullReset ==
    call # None =>
        /\ morph = fresh
        /\ Range(Keys(morph.lexicon)) = Range(WordsGiven)
        /\ Len(morph.lexicon) = Cardinality(Range(WordsGiven))
        /\ \A i \in 1..Len(morph.lexicon) :
              /\ morph.lexicon[i][2].form = morph.lexicon[i][1]
              /\ morph.lexicon[i][2].count = Occurrences(WordsGiven, morph.lexicon[i][1])

\* learn_from_wordlist has returned on a morphology that an earlier call
\* (add_signature or learn_from_wordlist) had written: ["Test", "data",
\* "test"] lowercased gave test twice, data once.
C8_Witness ==
    /\ call # None
    /\ call.pc = "returned"
    /\ ncalls = 2
    /\ ret = None
    /\ call.wordlist = <<"Test", "data", "test">>
    /\ call.lowercase_input
    /\ morph = fresh
    /\ Keys(morph.lexicon) = <<"test", "data">>
    /\ morph.lexicon[1][2].count = 2
    /\ morph.lexicon[2][2].count = 1

\* C9 as stated: after learn_from_wordlist the list of passes run on the
\* suffix side and the list on the prefix side each record initial
\* discovery, then widening, then affix splitting.
C9_ThreePassesEachSide ==
    (call # None /\ call.pc = "returned") =>
        /\ morph.suffixal_analyses_run =
              <<"find_signatures1", "widen_signatures", "split_affixes">>
        /\ morph.prefixal_analyses_run =
              <<"find_signatures1", "widen_signatures", "split_affixes">>

\* C9, amended: learn_from_wordlist runs initial discovery on the suffix
\* side, then initial discovery on the prefix side, then, on the requested
\* side only, find_good_signatures_inside_bad, affix splitting and family
\* construction; widening is not run.  So the lists of passes run grow in
\* that order, and after the call the list of the requested side is
\* find_signatures1, find_good_signatures_inside_bad, split_affixes and the
\* list of the opposite side is find_signatures1 alone; families exist on
\* the requested side only, and only once the call has returned.
C9_StageOrder ==
    call # None =>
        LET side == call.affix_side
            opposite == IF side = "suffix" THEN "prefix" ELSE "suffix"
            run == get_analyses_list(morph, side)
            opposite_run == get_analyses_list(morph, opposite)
        IN  /\ get_families(morph, opposite) = PySet({})
            /\ CASE call.pc = "find_suffixal_signatures" ->
                      /\ run = <<>>
                      /\ opposite_run = <<>>
                      /\ get_families(morph, side) = PySet({})
                 [] call.pc = "find_prefixal_signatures" ->
                      /\ morph.suffixal_analyses_run = <<"find_signatures1">>
                      /\ morph.prefixal_analyses_run = <<>>
                      /\ get_families(morph, side) = PySet({})
                 [] call.pc = "find_good_signatures_inside_bad" ->
                      /\ run = <<"find_signatures1">>
                      /\ opposite_run = <<"find_signatures1">>
                      /\ get_families(morph, side) = PySet({})
                 [] call.pc \in {"split_affixes", "raised"} ->
                      /\ run = <<"find_signatures1", "find_good_signatures_inside_bad">>
                      /\ opposite_run = <<"find_signatures1">>
                      /\ get_families(morph, side) = PySet({})
                 [] call.pc = "create_families" ->
                      /\ run = <<"find_signatures1", "find_good_signatures_inside_bad",
                                 "split_affixes">>
                      /\ opposite_run = <<"find_signatures1">>
                      /\ get_families(morph, side) = PySet({})
                 [] call.pc = "returned" ->
                      /\ run = <<"find_signatures1", "find_good_signatures_inside_bad",
                                 "split_affixes">>
                      /\ opposite_run = <<"find_signatures1">>
                      /\ get_families(morph, side).type = "list"

\* A call with affix_side = "prefix" has returned.
C9_Witness ==
    /\ call # None
    /\ call.pc = "returned"
    /\ call.affix_side = "prefix"
    /\ morph.prefixal_analyses_run =
          <<"find_signatures1", "find_good_signatures_inside_bad", "split_affixes">>
    /\ morph.suffixal_analyses_run = <<"find_signatures1">>
    /\ Len(morph.prefixal_families.val) > 0

\* The call of the example has returned: learn_from_wordlist on wants,
\* wanted, wanting, adds, added, adding with min_stem_len = 2,
\* min_num_stems = 2, on the suffix side.
ExampleReturned ==
    /\ call # None
    /\ call.pc = "returned"
    /\ call.wordlist = Wants
    /\ call.min_stem_len = 2
    /\ call.min_num_stems = 2
    /\ call.num_seed_families >= 1
    /\ call.affix_side = "suffix"

------------------------------------------------------------------------------
(* ShadowSpec: a Signature is built from a set of affixes and the shadow   *)
(* signatures it casts are computed.                                       *)

MaxAffixes == 7

\* The affixes of the two examples in the tests, and an indexed affix.
ShadowAffixPool ==
    {NULL_AFFIX, "e", "ed", "es", "ing", "ab", "ac", "bcd", "bce", "cd", "c", "def", "ed:1"}

\* _compute_cast_shadow_signatures without the NULL affix added when the
\* beginning is itself an affix.
ShadowKeyWithoutNull(self, pos, affix_beginning) ==
    LET stripped == Keys(self.stripped_affixes)
        considered_affixes ==
            SelectSeq(stripped, LAMBDA affix : StartsWith(affix, affix_beginning)
                                               /\ Len(affix) > pos)
        letter_types_at_pos ==
            {Char(considered_affixes[i], pos + 1) : i \in 1..Len(considered_affixes)}
    IN  [cast |-> Cardinality(letter_types_at_pos) = Len(considered_affixes)
                    /\ Len(considered_affixes) > 1,
         key  |-> Join(SortedSet(letter_types_at_pos), AFFIX_DELIMITER)]

\* _compute_cast_shadow_signatures: the body of the loop over the affix
\* beginnings, whether a key is cast and which.
ShadowKey(self, pos, affix_beginning) ==
    LET stripped == Keys(self.stripped_affixes)
        longer == SelectSeq(stripped, LAMBDA affix : StartsWith(affix, affix_beginning)
                                                     /\ Len(affix) > pos)
        is_affix == affix_beginning \in Range(stripped)
        considered_affixes == IF is_affix THEN Append(longer, NULL_AFFIX) ELSE longer
        letter_types_at_pos ==
            {Char(longer[i], pos + 1) : i \in 1..Len(longer)}
                \cup (IF is_affix THEN {Str(NULL_AFFIX)} ELSE {})
    IN  [cast |-> Cardinality(letter_types_at_pos) = Len(considered_affixes)
                    /\ Len(considered_affixes) > 1,
         key  |-> Join(SortedSet(letter_types_at_pos), AFFIX_DELIMITER)]

\* Signature._compute_cast_shadow_signatures(): max() of an empty sequence
\* raises ValueError.
cast_shadow_signatures(self) ==
    LET stripped == Keys(self.stripped_affixes)
    IN  IF Len(stripped) = 0 THEN ValueError("max() arg is an empty sequence")
        ELSE
            LET longest == Max({Len(stripped[i]) : i \in 1..Len(stripped)})
                affix_beginnings(pos) ==
                    {SliceTo(stripped[i], pos) :
                        i \in {i \in 1..Len(stripped) : Len(stripped[i]) > pos}}
            IN  [kind |-> "set",
                 val  |-> {ShadowKey(self, pos, affix_beginning).key :
                              <<pos, affix_beginning>> \in
                                  {pb \in UNION {{<<pos, b>> : b \in affix_beginnings(pos)} :
                                                    pos \in 0..(longest - 1)} :
                                      ShadowKey(self, pb[1], pb[2]).cast}}]

\* The affixes given to the constructor, as lists.
AffixLists == {SortedSet(A) : A \in {A \in SUBSET ShadowAffixPool : Cardinality(A) <= MaxAffixes}}

ShadowInit == Idle

\* sig = Signature(stems, affixes, affix_side)
NewShadowCaster ==
    /\ sig = None
    /\ \E affixes \in AffixLists, side \in Sides :
        /\ sig' = Signature(PyList(<<"chang">>), PyList(affixes), side)
        /\ ctor' = [stems |-> <<"chang">>, affixes |-> affixes, affix_side |-> side]
    /\ UNCHANGED <<other, ret, nullVars, morphVars>>

\* ret = sig.cast_shadow_signatures
CastShadowSignatures ==
    /\ sig # None
    /\ ret = None
    /\ ret' = [call |-> "cast_shadow_signatures", result |-> cast_shadow_signatures(sig)]
    /\ UNCHANGED <<sigVars, nullVars, morphVars>>

ShadowNext == NewShadowCaster \/ CastShadowSignatures

ShadowSpec == ShadowInit /\ [][ShadowNext]_vars

\* The distinct spellings of the affixes sig was built from.
AffixSpellings == Spellings(ctor.affixes)

\* The members of the group of the beginning b at position pos: the affixes
\* longer than pos that start with b, and NULL when b is itself an affix,
\* each with its letter at pos (NULL standing for itself).
GroupLetters(pos, b) ==
    {<<affix, Char(affix, pos + 1)>> :
        affix \in {affix \in AffixSpellings : Len(affix) > pos /\ StartsWith(affix, b)}}
        \cup (IF b \in AffixSpellings THEN {<<NULL_AFFIX, "NULL">>} ELSE {})

\* The group has two members or more and their letters are pairwise
\* distinct.
Casts(pos, b) ==
    /\ Cardinality(GroupLetters(pos, b)) >= 2
    /\ \A m, n \in GroupLetters(pos, b) : m # n => m[2] # n[2]

\* C11: a signature casts a shadow key exactly when for some position pos
\* and some affix beginning b of length pos the group made of the affixes
\* longer than pos that start with b, plus NULL when b is itself an affix,
\* has two members or more with pairwise distinct letters at pos, the key
\* being those letters sorted and joined by "="; the computation leaves the
\* signature as it was built.  (A signature with no affix casts no key: the
\* computation raises ValueError.)
C11_ShadowKeys ==
    (ret # None /\ ret.call = "cast_shadow_signatures") =>
        LET beginnings == UNION {{SliceTo(affix, pos) : pos \in 0..Len(affix)} :
                                    affix \in AffixSpellings}
            expected == {Join(SortedSet({m[2] : m \in GroupLetters(Len(b), b)}), "=") :
                            b \in {b \in beginnings : Casts(Len(b), b)}}
            cast == IF ret.result.kind = "set" THEN ret.result.val ELSE {}
        IN  /\ cast = expected
            /\ ret.result.kind # "set" <=> AffixSpellings = {}
            /\ sig = Signature(PyList(ctor.stems), PyList(ctor.affixes), ctor.affix_side)

\* The signature of ab, ac, bcd, bce, cd, c, def has cast b=c, d=e and
\* NULL=d.
C11_Witness ==
    /\ ret # None
    /\ ret.call = "cast_shadow_signatures"
    /\ Range(ctor.affixes) = {"ab", "ac", "bcd", "bce", "cd", "c", "def"}
    /\ ret.result.kind = "set"
    /\ ret.result.val = {"b=c", "d=e", "NULL=d"}

------------------------------------------------------------------------------
(* PassSpec: after learn_from_wordlist has returned, the learning passes   *)
(* are called again, in any order and on either side.  A pass whose loop   *)
(* over the bigrams looks up a word that the lexicon does not hold raises  *)
(* KeyError, which ends the run.                                           *)

MaxPasses == 2

\* The number of bigrams that the loop of a pass meets before the one that
\* raises KeyError (the bigrams are met in the order of a set).
MaxMet == 1

\* The word lists learnt from: suffixes that split, prefixes that split,
\* and stems left as protostems.
PassWordlists ==
    {<<"bowled", "bowling", "bowlings", "walked", "walking", "walkings",
       "cat", "cats", "dom", "doms">>,
     <<"delwob", "gnilwob", "sgnilwob", "deklaw", "gniklaw", "sgniklaw",
       "tac", "stac", "mod", "smod">>,
     <<"want", "wants", "wanted", "add", "adds", "added",
       "boot", "boots", "booted", "booting">>}

\* The sets of at most n of the bigrams that raise nothing: what the loop
\* of a pass may have told the lexicon before it raises.
RECURSIVE MetBefore(_, _)
MetBefore(bigrams_, n) ==
    IF n = 0
    THEN {{}}
    ELSE LET fewer == MetBefore(bigrams_, n - 1)
         IN  fewer \cup UNION {{met \cup {bigram} : bigram \in bigrams_} : met \in fewer}

PassInit == Idle

\* morph.learn_from_wordlist(wordlist, min_stem_len=2,
\* min_num_stems=min_num_stems, affix_side=affix_side), up to the lexicon
\* filled.
LearnOnce ==
    /\ morph # None
    /\ call = None
    /\ ncalls = 0
    /\ \E wordlist \in PassWordlists, min_num_stems \in {1, MIN_NUM_STEMS},
          affix_side \in Sides :
        /\ morph' = Populate(morph, wordlist, TRUE)
        /\ call' = [wordlist          |-> wordlist,
                    lowercase_input   |-> TRUE,
                    min_stem_len      |-> 2,
                    min_num_stems     |-> min_num_stems,
                    num_seed_families |-> NUM_SEED_FAMILIES,
                    min_robustness    |-> MIN_ROBUSTNESS_FOR_FAMILY_INCLUSION,
                    affix_side        |-> affix_side,
                    exception         |-> None,
                    pc                |-> "find_suffixal_signatures"]
    /\ ncalls' = ncalls + 1
    /\ ret' = None
    /\ UNCHANGED <<fresh, sigVars, nullVars>>

\* A pass runs on a side either as the step of learn_from_wordlist that
\* `steps` names, or on its own once learn_from_wordlist has returned.
PassRuns(steps, affix_side) ==
    /\ call # None
    /\ IF call.pc = "returned"
       THEN ncalls < 1 + MaxPasses
       ELSE <<call.pc, affix_side>> \in steps

\* What a pass called on its own leaves in ret.
Passed(func, affix_side, result) ==
    [call |-> func, affix_side |-> affix_side, result |-> result]

\* The pass is over: learn_from_wordlist goes on with its next step, the
\* caller of a pass gets its result, and an exception ends the run.
PassDone(func, affix_side, result, next_step) ==
    /\ call' = [call EXCEPT !.pc = IF result # None THEN "raised"
                                   ELSE IF call.pc = "returned" THEN "returned"
                                   ELSE next_step,
                            !.exception = result]
    /\ ret' = IF call.pc = "returned" THEN Passed(func, affix_side, result) ELSE ret
    /\ ncalls' = IF call.pc = "returned" THEN ncalls + 1 ELSE ncalls

\* find_signatures1(min_stem_len, min_num_stems, affix_side)
FindSignatures1 ==
    /\ \E affix_side \in Sides :
        /\ PassRuns({<<"find_suffixal_signatures", "suffix">>,
                     <<"find_prefixal_signatures", "prefix">>}, affix_side)
        /\ morph' = find_signatures1(morph, call.min_stem_len, call.min_num_stems,
                                     affix_side)
        /\ PassDone("find_signatures1", affix_side, None,
                    IF affix_side = "suffix"
                    THEN "find_prefixal_signatures"
                    ELSE "find_good_signatures_inside_bad")
    /\ UNCHANGED <<fresh, sigVars, nullVars>>

\* widen_signatures(affix_side); learn_from_wordlist does not call it.
WidenSignatures ==
    /\ \E affix_side \in Sides :
        /\ PassRuns({}, affix_side)
        /\ LET found == WidenFound(morph, affix_side)
               missing == MissingWords(morph, found.bigrams)
           IN  IF missing = {}
               THEN /\ morph' = widen_signatures(morph, affix_side)
                    /\ PassDone("widen_signatures", affix_side, None, "returned")
               ELSE \E bigram \in missing :
                    \E met \in MetBefore(found.bigrams \ missing, MaxMet) :
                        /\ morph' = Interrupted(found, met, "widen_signatures",
                                                affix_side)
                        /\ PassDone("widen_signatures", affix_side,
                                    KeyError(Join(bigram, "")), "returned")
    /\ UNCHANGED <<fresh, sigVars, nullVars>>

\* find_good_signatures_inside_bad(affix_side)
FindGoodSignaturesInside ==
    /\ \E affix_side \in Sides :
        /\ PassRuns({<<"find_good_signatures_inside_bad", call.affix_side>>},
                    affix_side)
        /\ LET func == "find_good_signatures_inside_bad"
               found == InsideBadFound(morph, affix_side)
               missing == MissingWords(morph, found.bigrams)
           IN  IF missing = {}
               THEN /\ morph' = find_good_signatures_inside_bad(morph, affix_side)
                    /\ PassDone(func, affix_side, None, "split_affixes")
               ELSE \E bigram \in missing :
                    \E met \in MetBefore(found.bigrams \ missing, MaxMet) :
                        /\ morph' = Interrupted(found, met, func, affix_side)
                        /\ PassDone(func, affix_side, KeyError(Join(bigram, "")),
                                    "split_affixes")
    /\ UNCHANGED <<fresh, sigVars, nullVars>>

\* split_affixes(affix_side)
SplitAffixesOnSide ==
    /\ \E affix_side \in Sides :
        /\ PassRuns({<<"split_affixes", call.affix_side>>}, affix_side)
        /\ IF SplitExceptions(morph, affix_side) # {}
           THEN \E exception \in SplitExceptions(morph, affix_side) :
                    /\ morph' = morph
                    /\ PassDone("split_affixes", affix_side, exception,
                                "create_families")
           ELSE \E biparses \in BiparseOrders(morph, affix_side) :
                    /\ morph' = split_affixes(morph, affix_side, biparses)
                    /\ PassDone("split_affixes", affix_side, None, "create_families")
    /\ UNCHANGED <<fresh, sigVars, nullVars>>

\* create_families(num_seed_families, min_robustness, affix_side)
CreateFamiliesOnSide ==
    /\ \E affix_side \in Sides :
        /\ PassRuns({<<"create_families", call.affix_side>>}, affix_side)
        /\ morph' = create_families(morph, call.num_seed_families,
                                    call.min_robustness, affix_side)
        /\ PassDone("create_families", affix_side, None, "returned")
    /\ UNCHANGED <<fresh, sigVars, nullVars>>

PassNext ==
    \/ NewMorphology
    \/ LearnOnce
    \/ FindSignatures1
    \/ WidenSignatures
    \/ FindGoodSignaturesInside
    \/ SplitAffixesOnSide
    \/ CreateFamiliesOnSide

PassSpec == PassInit /\ [][PassNext]_vars

\* A morpheme without the index that add_new_index gave it: the index
\* follows the marker of a suffix and precedes the marker of a prefix.
Unindexed(morpheme, affix_side) ==
    LET location == Find(morpheme, AFFIX_MARKER)
    IN  IF location = -1 THEN morpheme
        ELSE IF affix_side = "prefix" THEN SliceFrom(morpheme, location + 1)
        ELSE SliceTo(morpheme, location)

\* The morphemes of a parse, each without its index.
UnindexedParse(parse, affix_side) ==
    [i \in 1..Len(parse) |-> Unindexed(parse[i], affix_side)]

\* A pass called on its own was the last call, and it returned.
PassReturned(func, affix_side) ==
    /\ call # None
    /\ call.pc = "returned"
    /\ ret # None
    /\ ret = Passed(func, affix_side, None)

\* C12, as stated: after any sequence of learning passes on either side, the
\* morphemes of every current parse of every word, concatenated as they are
\* stored, give the word's form.
C12_ParsesConcatenateToForm ==
    (morph # None) =>
        \A i \in 1..Len(morph.lexicon), affix_side \in Sides :
            \A parse \in get_parses(morph.lexicon[i][2], affix_side) :
                Join(parse, "") = morph.lexicon[i][2].form

\* C12, amended: after any sequence of learning passes on either side, the
\* morphemes of every current parse of every word give the word's form once
\* the index that split_affixes gave to a split-off affix is taken away
\* (NULL being the empty string); the three-morpheme parses that
\* split_affixes adds have such an indexed affix in the middle.
C12_UnindexedParsesConcatenateToForm ==
    (morph # None) =>
        \A i \in 1..Len(morph.lexicon), affix_side \in Sides :
            \A parse \in get_parses(morph.lexicon[i][2], affix_side) :
                /\ Join(UnindexedParse(parse, affix_side), "") = morph.lexicon[i][2].form
                /\ Len(parse) <= 3
                /\ Len(parse) = 3 => Find(parse[2], AFFIX_MARKER) # -1

\* split_affixes, called once more after learn_from_wordlist, has returned,
\* and "bowlings" is parsed in three morphemes.
C12_Witness ==
    /\ PassReturned("split_affixes", "suffix")
    /\ HasKey(morph.lexicon, "bowlings")
    /\ get_parses(Get(morph.lexicon, "bowlings"), "suffix")
           = {Parse(<<"bowl", "ing:1", "s">>)}
    /\ get_parses(Get(morph.lexicon, "bowling"), "suffix")
           = {Parse(<<"bowl", "ing:1", NULL_AFFIX>>)}

------------------------------------------------------------------------------
(* Families (claims on create_families).                                   *)

\* The nuclei of the families of a side, in the order of the list.
Nuclei(self, affix_side) ==
    LET families == get_families(self, affix_side).val
    IN  [i \in 1..Len(families) |-> families[i].nucleus]

\* FamilySpec: a Morphology is constructed from more signatures than
\* NUM_SEED_FAMILIES and create_families is called on it.

\* The affixes that the signatures built first are made of.
SeedAffixes == <<NULL_AFFIX, "a", "b", "c", "d">>

SeedStems == <<"p", "q", "r", "s", "t", "u", "v">>

\* The number of signatures built first: one for every set of seed affixes
\* but the empty set and the whole set.
NumSeedSignatures == 30

\* The k-th signature built first: its affixes are the seed affixes whose
\* bit is set in k.
SeedSignature(k, affix_side) ==
    Signature(PyList(SeedStems),
              PyList(Pick(SeedAffixes, {i \in 1..Len(SeedAffixes) : (k \div 2^(i - 1)) % 2 = 1})),
              affix_side)

\* The signatures that may be built after them.
LateSignatures(affix_side) ==
    <<Signature(PyList(<<"x">>), PyList(SeedAffixes), affix_side),
      Signature(PyList(<<"x">>), PyList(<<"a", "b", "f">>), affix_side),
      Signature(PyList(<<"x">>), PyList(<<"f", "g">>), affix_side),
      Signature(PyList(<<"x", "y">>), PyList(<<"g">>), affix_side),
      Signature(PyList(SeedStems), PyList(<<"a", "g">>), affix_side)>>

\* The thresholds given to create_families.
Thresholds == {0, 2, MIN_ROBUSTNESS_FOR_FAMILY_INCLUSION}

FamilyInit == Idle

\* morph = Morphology(*signatures), the signatures all of one side.
NewLargeMorphology ==
    /\ morph = None
    /\ \E affix_side \in Sides, I \in {J \in SUBSET (1..5) : Cardinality(J) >= 3} :
        morph' = Morphology([k \in 1..NumSeedSignatures |-> SeedSignature(k, affix_side)]
                            \o Pick(LateSignatures(affix_side), I))
    /\ UNCHANGED <<fresh, ncalls, call, ret, sigVars, nullVars>>

\* morph.create_families(min_robustness=min_robustness, affix_side=affix_side)
CallCreateFamilies ==
    /\ morph # None
    /\ ncalls < MaxCalls
    /\ \E num_seed_families \in {NUM_SEED_FAMILIES}, min_robustness \in Thresholds,
          affix_side \in Sides :
        /\ morph' = create_families(morph, num_seed_families, min_robustness, affix_side)
        /\ ret' = [call |-> "create_families", num_seed_families |-> num_seed_families,
                   min_robustness |-> min_robustness, affix_side |-> affix_side]
    /\ ncalls' = ncalls + 1
    /\ UNCHANGED <<fresh, call, sigVars, nullVars>>

FamilyNext ==
    \/ NewLargeMorphology
    \/ CallCreateFamilies

FamilySpec == FamilyInit /\ [][FamilyNext]_vars

\* C13: once learn_from_wordlist(..., num_seed_families=K, affix_side=side)
\* has returned (create_families being its last step), the side has exactly
\* min(K, number of signatures of the side) families, and their nuclei are
\* the K most robust signatures of the side.
C13_SeedFamilies ==
    (call # None /\ call.pc = "returned") =>
        LET signatures == ByRobustness(get_signatures(morph, call.affix_side))
            K == Min({call.num_seed_families, Len(signatures)})
        IN  /\ Len(get_families(morph, call.affix_side).val) = K
            /\ Range(Nuclei(morph, call.affix_side))
                   = {affix_string(signatures[i]) : i \in 1..K}

\* create_families was the last call.
FamiliesCreated == ret # None /\ ret.call = "create_families"

\* The affixes of the signature stored under a key on a side.
AffixesOf(self, key, affix_side) ==
    Range(Keys(Get(signatures_dict(self, affix_side), key).affixes))

\* The indexes of the families of a side whose nucleus has no affix that
\* the signature stored under the key lacks.
Fitting(self, key, affix_side) ==
    {i \in 1..Len(Nuclei(self, affix_side)) :
        AffixesOf(self, Nuclei(self, affix_side)[i], affix_side)
            \subseteq AffixesOf(self, key, affix_side)}

\* The indexes of the families of a side that have the key as a child.
FamiliesOf(self, key, affix_side) ==
    {i \in 1..Len(Nuclei(self, affix_side)) :
        key \in get_families(self, affix_side).val[i].children}

\* C14: after create_families(min_robustness, side), every child key of
\* every family of the side names a stored signature of the side that is
\* not a nucleus, that has a robustness of at least min_robustness and all
\* the affixes of the family's nucleus; no signature is a child of two
\* families; a signature that contains no nucleus or is less robust than
\* min_robustness is a child of no family.
C14_FamilyChildren ==
    FamiliesCreated =>
        LET affix_side == ret.affix_side
            stored == signatures_dict(morph, affix_side)
            families == get_families(morph, affix_side).val
        IN  /\ \A i \in 1..Len(families) : \A key \in families[i].children :
                /\ HasKey(stored, key)
                /\ affix_string(Get(stored, key)) = key
                /\ Get(stored, key).affix_side = affix_side
                /\ key \notin Range(Nuclei(morph, affix_side))
                /\ robustness(Get(stored, key)) >= ret.min_robustness
                /\ i \in Fitting(morph, key, affix_side)
            /\ \A key \in Range(Keys(stored)) :
                /\ Cardinality(FamiliesOf(morph, key, affix_side)) <= 1
                /\ (\/ Fitting(morph, key, affix_side) = {}
                    \/ robustness(Get(stored, key)) < ret.min_robustness)
                   => FamiliesOf(morph, key, affix_side) = {}

\* create_families(min_robustness=2) has run on a side where the signature
\* of x with a, b, f (robustness 2) is a child of a family, the signature
\* of x with f, g is too weak, and the signature of the stems with NULL alone
\* contains no nucleus.
C14_Witness ==
    /\ FamiliesCreated
    /\ ret.min_robustness = 2
    /\ Len(get_families(morph, ret.affix_side).val) = NUM_SEED_FAMILIES
    /\ HasKey(signatures_dict(morph, ret.affix_side), "a=b=f")
    /\ FamiliesOf(morph, "a=b=f", ret.affix_side) # {}
    /\ HasKey(signatures_dict(morph, ret.affix_side), "f=g")
    /\ FamiliesOf(morph, "f=g", ret.affix_side) = {}
    /\ "NULL" \notin Range(Nuclei(morph, ret.affix_side))
    /\ Fitting(morph, "NULL", ret.affix_side) = {}

\* The number of affixes of the nucleus of the i-th family of a side.
NucleusSize(self, i, affix_side) ==
    Cardinality(AffixesOf(self, Nuclei(self, affix_side)[i], affix_side))

\* C15: after create_families(min_robustness, side), the families are in
\* the order of the number of affixes of their nucleus, largest first, and
\* every signature of the side that is not a nucleus, is at least as robust
\* as min_robustness and contains the nucleus of some family is a child of
\* the first family whose nucleus it contains, none of the nuclei that it
\* contains having more affixes.
C15_LargestNucleusFirst ==
    FamiliesCreated =>
        LET affix_side == ret.affix_side
            stored == signatures_dict(morph, affix_side)
            families == get_families(morph, affix_side).val
        IN  /\ \A i, j \in 1..Len(families) :
                i < j => NucleusSize(morph, i, affix_side) >= NucleusSize(morph, j, affix_side)
            /\ \A key \in Range(Keys(stored)) \ Range(Nuclei(morph, affix_side)) :
                LET fitting == Fitting(morph, key, affix_side)
                IN  (robustness(Get(stored, key)) >= ret.min_robustness /\ fitting # {})
                    => /\ FamiliesOf(morph, key, affix_side) = {Min(fitting)}
                       /\ \A j \in fitting :
                              NucleusSize(morph, j, affix_side)
                                  <= NucleusSize(morph, Min(fitting), affix_side)

\* create_families has run on a side where the signature of x with a, b, f
\* contains the nuclei a, b and a=b, and it is a child of the family of a=b.
C15_Witness ==
    /\ FamiliesCreated
    /\ HasKey(signatures_dict(morph, ret.affix_side), "a=b=f")
    /\ "a=b=f" \notin Range(Nuclei(morph, ret.affix_side))
    /\ {Nuclei(morph, ret.affix_side)[i] : i \in Fitting(morph, "a=b=f", ret.affix_side)}
           = {"a", "b", "a=b"}
    /\ \E i \in 1..Len(Nuclei(morph, ret.affix_side)) :
           /\ Nuclei(morph, ret.affix_side)[i] = "a=b"
           /\ get_families(morph, ret.affix_side).val[i].children = {"a=b=f"}

------------------------------------------------------------------------------
(* IndexSpec: add_new_index is called on a constructed Morphology.         *)

MaxIndexCalls == 3

\* The affixes a new index is asked for.
IndexedAffixPool == {NULL_AFFIX, "af", "ed", "ed:1", "1:un"}

IndexInit == Idle

\* morph.add_new_index(affix, affix_side); ret keeps the outcome and the
\* arguments of the calls made before.
AddNewIndex ==
    /\ morph # None
    /\ ncalls < MaxIndexCalls
    /\ \E affix \in IndexedAffixPool, affix_side \in Sides :
        /\ morph' = add_new_index(morph, affix, affix_side).self
        /\ ret' = [call       |-> "add_new_index",
                   affix      |-> affix,
                   affix_side |-> affix_side,
                   result     |-> add_new_index(morph, affix, affix_side).result,
                   before     |-> IF ret = None THEN <<>>
                                  ELSE Append(ret.before, <<ret.affix, ret.affix_side>>)]
    /\ ncalls' = ncalls + 1
    /\ UNCHANGED <<fresh, call, sigVars, nullVars>>

IndexNext ==
    \/ NewMorphology
    \/ AddNewIndex

IndexSpec == IndexInit /\ [][IndexNext]_vars

\* The calls of add_new_index made so far, the last one included.
IndexCalls == Append(ret.before, <<ret.affix, ret.affix_side>>)

\* The number of calls made so far for an affix on a side.
NumIndexCalls(affix, affix_side) ==
    Cardinality({i \in 1..Len(IndexCalls) : IndexCalls[i] = <<affix, affix_side>>})

\* The affix is neither NULL nor indexed.
Indexable(affix) == affix # NULL_AFFIX /\ Find(affix, AFFIX_MARKER) = -1

\* The collision counters of a side.
name_collisions(self, affix_side) ==
    IF affix_side = "prefix" THEN self.prefixal_name_collisions
    ELSE self.suffixal_name_collisions

\* C16: the n-th call of add_new_index for an affix that is neither NULL nor
\* indexed, on a side, returns the affix with the marker and the integer n
\* (the index after a suffix, before a prefix); NULL and an affix that has a
\* marker are returned as they are; the counters of a side count the calls
\* made for that side with an affix that is neither NULL nor indexed, and
\* nothing else.
C16_NewIndex ==
    (ret # None) =>
        /\ IF Indexable(ret.affix)
           THEN ret.result =
                    IF ret.affix_side = "prefix"
                    THEN IntStr(NumIndexCalls(ret.affix, ret.affix_side))
                             \o AFFIX_MARKER \o ret.affix
                    ELSE ret.affix \o AFFIX_MARKER
                             \o IntStr(NumIndexCalls(ret.affix, ret.affix_side))
           ELSE ret.result = ret.affix
        /\ \A affix_side \in Sides :
            /\ \A affix \in Range(Keys(name_collisions(morph, affix_side))) :
                   Indexable(affix)
            /\ \A affix \in IndexedAffixPool :
                   (IF HasKey(name_collisions(morph, affix_side), affix)
                    THEN Get(name_collisions(morph, affix_side), affix) ELSE 0)
                       = IF Indexable(affix) THEN NumIndexCalls(affix, affix_side) ELSE 0

\* The third call is the second for the suffix af, a call for the prefix af
\* having come between, and it returns af:2.
C16_Witness ==
    /\ ret # None
    /\ ret.before = <<<<"af", "suffix">>, <<"af", "prefix">>>>
    /\ ret.affix = "af"
    /\ ret.affix_side = "suffix"
    /\ ret.result = "af:2"
    /\ Get(morph.prefixal_name_collisions, "af") = 1

------------------------------------------------------------------------------
(* Counts attached by build_signatures.                                    *)

\* build_signatures(bigrams, side) was the last thing done: as the end of
\* find_signatures1 in learn_from_wordlist, or of a pass called on its own.
SignaturesBuilt(affix_side) ==
    /\ call # None
    /\ \/ call.pc = "find_prefixal_signatures" /\ affix_side = "suffix"
       \/ call.pc = "find_good_signatures_inside_bad" /\ affix_side = "prefix"
       \/ /\ call.pc = "returned"
          /\ ret # None
          /\ ret.affix_side = affix_side
          /\ ret.call \in {"find_signatures1", "widen_signatures",
                           "find_good_signatures_inside_bad"}

\* The corpus frequency of the word that a stem and an affix form on a side
\* (0 when the lexicon has no such word).
Frequency(self, stem, affix, affix_side) ==
    LET form == Join(switch_if_needed(<<stem, affix>>, affix_side), "")
    IN  IF HasKey(self.lexicon, form) THEN Get(self.lexicon, form).count ELSE 0

\* C17: when build_signatures has built the signatures of a side from a
\* lexicon that has word counts, the count of every stem of every signature
\* is the total frequency of the words that the stem forms with the affixes
\* of the signature, and the count of every affix is the total frequency of
\* the words that the affix forms with the stems of the signature.
C17_CountsOfOwnWords ==
    \A affix_side \in Sides :
        SignaturesBuilt(affix_side) =>
            \A signature \in Range(get_signatures(morph, affix_side)) :
                LET stems == Keys(signature.stems)
                    affixes == Keys(signature.affixes)
                IN  /\ \A i \in 1..Len(stems) :
                        signature.stems[i][2] =
                            Sum([j \in 1..Len(affixes) |->
                                    Frequency(morph, stems[i], affixes[j], affix_side)])
                    /\ \A j \in 1..Len(affixes) :
                        signature.affixes[j][2] =
                            Sum([i \in 1..Len(stems) |->
                                    Frequency(morph, stems[i], affixes[j], affix_side)])

------------------------------------------------------------------------------
(* KeySpec: sequences of add_signature, remove_signature and               *)
(* build_signatures calls on a constructed Morphology.                     *)

MaxStoreCalls == 2

KeyInit == Idle

\* morph.add_signature(stems, affixes, affix_side), one of a sequence.
AddSignatureInTurn ==
    /\ morph # None
    /\ ncalls < MaxStoreCalls
    /\ \E stems \in AddedStems, affixes \in AddedAffixes, affix_side \in Sides :
        /\ morph' = add_signature(morph, PyList(stems), PyList(affixes), affix_side)
        /\ ret' = [call |-> "add_signature", stems |-> stems, affixes |-> affixes,
                   affix_side |-> affix_side]
    /\ ncalls' = ncalls + 1
    /\ UNCHANGED <<fresh, call, sigVars, nullVars>>

\* morph.remove_signature(affix_string, affix_side), one of a sequence; del
\* raises KeyError for a key that is not stored.
RemoveSignatureInTurn ==
    /\ morph # None
    /\ ncalls < MaxStoreCalls
    /\ \E affix_string_ \in KeyPool, affix_side \in Sides :
        IF HasKey(signatures_dict(morph, affix_side), affix_string_)
        THEN /\ morph' = remove_signature(morph, affix_string_, affix_side)
             /\ ret' = [call |-> "remove_signature", affix_string |-> affix_string_,
                        affix_side |-> affix_side, result |-> None]
        ELSE /\ morph' = morph
             /\ ret' = [call |-> "remove_signature", affix_string |-> affix_string_,
                        affix_side |-> affix_side, result |-> KeyError(affix_string_)]
    /\ ncalls' = ncalls + 1
    /\ UNCHANGED <<fresh, call, sigVars, nullVars>>

\* morph.build_signatures(bigrams, affix_side, min_num_stems), one of a
\* sequence, from all the bigrams of the pool but one at most.
BuildSignaturesInTurn ==
    /\ morph # None
    /\ ncalls < MaxStoreCalls
    /\ \E affix_side \in Sides, min_num_stems \in {1, MIN_NUM_STEMS} :
        \E bigrams_ \in {b \in SUBSET BigramPool(affix_side) :
                            Cardinality(b) >= Cardinality(BigramPool(affix_side)) - 1} :
            /\ morph' = build_signatures(morph, bigrams_, affix_side, min_num_stems).self
            /\ ret' = [call |-> "build_signatures", bigrams |-> bigrams_,
                       affix_side |-> affix_side, min_num_stems |-> min_num_stems]
    /\ ncalls' = ncalls + 1
    /\ UNCHANGED <<fresh, call, sigVars, nullVars>>

KeyNext ==
    \/ NewMorphology
    \/ AddSignatureInTurn
    \/ RemoveSignatureInTurn
    \/ BuildSignaturesInTurn

KeySpec == KeyInit /\ [][KeyNext]_vars

\* The indexes of the entries of a side whose signature has the affixes of
\* signature.
SameAffixes(self, signature, affix_side) ==
    {i \in 1..Len(signatures_dict(self, affix_side)) :
        Range(Keys(signatures_dict(self, affix_side)[i][2].affixes))
            = Range(Keys(signature.affixes))}

------------------------------------------------------------------------------
(* Signatures and the words of the lexicon.                                *)

\* The passes run on a side since find_signatures1 last ran on it (the
\* empty sequence if it never ran).
SinceFindSignatures1(self, affix_side) ==
    LET runs == get_analyses_list(self, affix_side)
        found == {i \in 1..Len(runs) : runs[i] = "find_signatures1"}
    IN  IF found = {} THEN <<>> ELSE SubSeq(runs, Max(found), Len(runs))

\* find_signatures1 has run on the side, and only widen_signatures and
\* find_good_signatures_inside_bad ran on it since.
FoundAndWidened(self, affix_side) ==
    /\ SinceFindSignatures1(self, affix_side) # <<>>
    /\ "split_affixes" \notin Range(SinceFindSignatures1(self, affix_side))

\* C19: after find_signatures1 followed by any number of widen_signatures
\* and find_good_signatures_inside_bad passes on a side, every stem of every
\* signature of the side forms a word of the lexicon with every affix of the
\* signature (the affix after the stem for a suffix, before it for a prefix,
\* NULL being empty).
C19_SignaturesOfWords ==
    (morph # None) =>
        \A affix_side \in Sides :
            FoundAndWidened(morph, affix_side) =>
                \A signature \in Range(get_signatures(morph, affix_side)) :
                    \A stem \in Range(Keys(signature.stems)),
                       affix \in Range(Keys(signature.affixes)) :
                        HasKey(morph.lexicon,
                               Join(switch_if_needed(<<stem, affix>>, affix_side), ""))

\* learn_from_wordlist has left boot as a suffixal protostem, and
\* widen_signatures, called on the suffix side, has made it a stem of the
\* signature NULL=ed=s.
C19_Witness ==
    /\ PassReturned("widen_signatures", "suffix")
    /\ get_analyses_list(morph, "suffix") = <<"find_signatures1", "widen_signatures">>
    /\ HasKey(morph.suffixal_signatures, "NULL=ed=s")
    /\ Range(Keys(Get(morph.suffixal_signatures, "NULL=ed=s").stems))
           = {"add", "boot", "want"}

------------------------------------------------------------------------------
(* The two sides.                                                          *)

OtherSide(affix_side) == IF affix_side = "prefix" THEN "suffix" ELSE "prefix"

\* All that a Morphology holds for a side: the signatures, protostems,
\* collision counters, list of passes run and families of the side, and the
\* biography and the current parses of every word on the side.
SideOf(self, affix_side) ==
    [signatures      |-> signatures_dict(self, affix_side),
     protostems      |-> get_protostems(self, affix_side),
     name_collisions |-> name_collisions(self, affix_side),
     analyses_run    |-> get_analyses_list(self, affix_side),
     families        |-> get_families(self, affix_side),
     words           |-> [i \in 1..Len(self.lexicon) |->
                            LET word == self.lexicon[i][2]
                            IN  [form      |-> self.lexicon[i][1],
                                 biography |-> IF affix_side = "prefix"
                                               THEN word._prefixal_biography
                                               ELSE word._suffixal_biography,
                                 current   |-> IF affix_side = "prefix"
                                               THEN word._prefixal_parses
                                               ELSE word._suffixal_parses,
                                 parses    |-> get_parses(word, affix_side)]]]

\* The side of the pass that a step of PassSpec runs: the side of the step
\* of learn_from_wordlist, or the side that the caller of the pass gave.
SideOfStep ==
    IF call.pc = "returned" THEN ret'.affix_side
    ELSE IF call.pc = "find_suffixal_signatures" THEN "suffix"
    ELSE IF call.pc = "find_prefixal_signatures" THEN "prefix"
    ELSE call.affix_side

\* A step that runs a pass: learn_from_wordlist has filled the lexicon and
\* the step changes something.
PassStep == call # None /\ vars' # vars

\* C20: a run of find_signatures1, widen_signatures,
\* find_good_signatures_inside_bad, split_affixes (each with the
\* build_signatures that ends it) or create_families for one side, whether
\* it returns or raises, leaves unchanged all that the morphology holds for
\* the other side: signatures, protostems, collision counters, list of
\* passes run, families, and the biography and current parses of every word
\* on that side.
C20_SidesIndependent ==
    [][PassStep => SideOf(morph', OtherSide(SideOfStep)) = SideOf(morph, OtherSide(SideOfStep))]_vars

\* split_affixes has just run on the prefix side of a morphology learnt
\* for the suffix side, which has suffixal signatures with an indexed affix,
\* suffixal families and suffixal parses in three morphemes; the prefix side
\* has its own signatures and counters.
C20_Witness ==
    /\ PassReturned("split_affixes", "prefix")
    /\ call.affix_side = "suffix"
    /\ Len(morph.suffixal_signatures) > 0
    /\ Len(morph.suffixal_name_collisions) > 0
    /\ Len(get_families(morph, "suffix").val) > 0
    /\ get_analyses_list(morph, "prefix") = <<"find_signatures1", "split_affixes">>
    /\ Len(morph.prefixal_signatures) > 0
    /\ \E i \in 1..Len(morph.lexicon) :
           \E parse \in get_parses(morph.lexicon[i][2], "suffix") : Len(parse) = 3

------------------------------------------------------------------------------
(* What find_signatures1 leaves.                                           *)

\* find_signatures1 has just run on the side as a step of
\* learn_from_wordlist: the side held nothing before.
JustFound(affix_side) ==
    /\ call # None
    /\ \/ call.pc = "find_prefixal_signatures" /\ affix_side = "suffix"
       \/ call.pc = "find_good_signatures_inside_bad" /\ affix_side = "prefix"

\* The protostems of the lexicon with their continuations, as
\* find_signatures1 reads them off the sorted words (reversed on the prefix
\* side).
ProtostemsAndContinuations(self, min_stem_len, affix_side) ==
    Continuations(SortedWords(self, affix_side),
                  Protostems(SortedWords(self, affix_side), min_stem_len),
                  min_stem_len)

\* A string read off the sorted words, as a morpheme of the side.
AsMorpheme(s, affix_side) == IF affix_side = "prefix" THEN Reverse(s) ELSE s

\* The stems of the group of the i-th protostem: the protostems that have
\* exactly its continuations.
GroupOf(found, i, affix_side) ==
    {AsMorpheme(found[j][1], affix_side) :
        j \in {j \in 1..Len(found) : Range(found[j][2]) = Range(found[i][2])}}

\* The continuations of the i-th protostem, as affixes (the empty one is
\* NULL).
AffixesFound(found, i, affix_side) ==
    {AsMorpheme(found[i][2][k], affix_side) : k \in 1..Len(found[i][2])}

\* C21: after find_signatures1(min_stem_len, N, side), every group of
\* protostems that share exactly the same continuations and number at least
\* N is the set of stems of one signature of the side, whose affixes are the
\* continuations; every protostem of a smaller group is a key of the
\* protostem store of the side, mapped to its continuations, and a stem of
\* no signature; no stem of a signature is a key of the protostem store.
C21_GroupsOfProtostems ==
    \A affix_side \in Sides :
        JustFound(affix_side) =>
            LET found == ProtostemsAndContinuations(morph, call.min_stem_len, affix_side)
                signatures == Range(get_signatures(morph, affix_side))
                store == get_protostems(morph, affix_side)
            IN  /\ \A i \in 1..Len(found) :
                    IF Cardinality(GroupOf(found, i, affix_side)) >= call.min_num_stems
                    THEN Cardinality({signature \in signatures :
                            /\ Range(Keys(signature.stems)) = GroupOf(found, i, affix_side)
                            /\ Range(Keys(signature.affixes))
                                   = AffixesFound(found, i, affix_side)}) = 1
                    ELSE /\ HasKey(store, AsMorpheme(found[i][1], affix_side))
                         /\ Get(store, AsMorpheme(found[i][1], affix_side))
                                = AffixesFound(found, i, affix_side)
                         /\ \A signature \in signatures :
                                AsMorpheme(found[i][1], affix_side)
                                    \notin Range(Keys(signature.stems))
                /\ \A signature \in signatures :
                       Range(Keys(signature.stems)) \cap Range(Keys(store)) = {}

------------------------------------------------------------------------------
(* FindSpec: learn_from_wordlist with every minimum stem length on word    *)
(* lists that hold short words, then passes on either side.                *)

MaxFindStemLen == 3

FindWordlists ==
    {<<"wa", "want", "wants", "wanted", "add", "adds", "added", "a">>,
     <<"aw", "tnaw", "stnaw", "detnaw", "dda", "sdda", "dedda", "a">>,
     <<"bod", "bog", "bogs", "rod", "rog", "rogs">>}

FindInit == Idle

\* morph.learn_from_wordlist(wordlist, min_stem_len=min_stem_len,
\* min_num_stems=min_num_stems, affix_side=affix_side), up to the lexicon
\* filled.
LearnShortWords ==
    /\ morph # None
    /\ call = None
    /\ ncalls = 0
    /\ \E wordlist \in FindWordlists, min_stem_len \in 1..MaxFindStemLen,
          min_num_stems \in {1, MIN_NUM_STEMS}, affix_side \in Sides :
        /\ morph' = Populate(morph, wordlist, TRUE)
        /\ call' = [wordlist          |-> wordlist,
                    lowercase_input   |-> TRUE,
                    min_stem_len      |-> min_stem_len,
                    min_num_stems     |-> min_num_stems,
                    num_seed_families |-> NUM_SEED_FAMILIES,
                    min_robustness    |-> MIN_ROBUSTNESS_FOR_FAMILY_INCLUSION,
                    affix_side        |-> affix_side,
                    exception         |-> None,
                    pc                |-> "find_suffixal_signatures"]
    /\ ncalls' = ncalls + 1
    /\ ret' = None
    /\ UNCHANGED <<fresh, sigVars, nullVars>>

FindNext ==
    \/ NewMorphology
    \/ LearnShortWords
    \/ FindSignatures1
    \/ WidenSignatures
    \/ FindGoodSignaturesInside
    \/ SplitAffixesOnSide
    \/ CreateFamiliesOnSide

FindSpec == FindInit /\ [][FindNext]_vars

------------------------------------------------------------------------------
(* SplitSpec: learn_from_wordlist on word lists whose protostems fit two   *)
(* signatures or whose words have two analyses, then passes on either      *)
(* side.                                                                   *)

SplitWordlists ==
    {<<"bo", "bos", "bod", "bog", "ca", "cas", "do", "dos",
       "fid", "fig", "hud", "hug">>,
     <<"bod", "bog", "bogs", "rod", "rog", "rogs">>,
     <<"sob", "sdob", "tob", "tsob", "sac", "sdac", "tac", "tsac",
       "sod", "sdod", "tod", "tsod">>}

SplitInit == Idle

\* morph.learn_from_wordlist(wordlist, min_stem_len=min_stem_len,
\* min_num_stems=min_num_stems, affix_side=affix_side), up to the lexicon
\* filled.
LearnToSplit ==
    /\ morph # None
    /\ call = None
    /\ ncalls = 0
    /\ \E wordlist \in SplitWordlists, min_stem_len \in 1..MaxMinStemLen,
          min_num_stems \in {1, MIN_NUM_STEMS}, affix_side \in Sides :
        /\ morph' = Populate(morph, wordlist, TRUE)
        /\ call' = [wordlist          |-> wordlist,
                    lowercase_input   |-> TRUE,
                    min_stem_len      |-> min_stem_len,
                    min_num_stems     |-> min_num_stems,
                    num_seed_families |-> NUM_SEED_FAMILIES,
                    min_robustness    |-> MIN_ROBUSTNESS_FOR_FAMILY_INCLUSION,
                    affix_side        |-> affix_side,
                    exception         |-> None,
                    pc                |-> "find_suffixal_signatures"]
    /\ ncalls' = ncalls + 1
    /\ ret' = None
    /\ UNCHANGED <<fresh, sigVars, nullVars>>

SplitNext ==
    \/ NewMorphology
    \/ LearnToSplit
    \/ FindSignatures1
    \/ WidenSignatures
    \/ FindGoodSignaturesInside
    \/ SplitAffixesOnSide
    \/ CreateFamiliesOnSide

SplitSpec == SplitInit /\ [][SplitNext]_vars

\* The number of letters that two strings have in common at their start.
CommonStart(a, b) ==
    Max({k \in 0..Min({Len(a), Len(b)}) : SliceTo(a, k) = SliceTo(b, k)})

\* s is what two neighbours of the sorted words have in common at their
\* start, all of it, and it has min_stem_len letters or more.
BetweenNeighbours(s, sorted_words, min_stem_len) ==
    /\ Len(s) >= min_stem_len
    /\ \E idx \in 1..(Len(sorted_words) - 1) :
           s = SliceTo(sorted_words[idx],
                       CommonStart(sorted_words[idx], sorted_words[idx + 1]))

\* The stems of the signatures and the retained protostems of a side.
StemsAndProtostems(self, affix_side) ==
    Range(Keys(get_protostems(self, affix_side)))
        \cup UNION {Range(Keys(signature.stems)) :
                        signature \in Range(get_signatures(self, affix_side))}

\* C22: after find_signatures1 with minimum stem length L, every stem of a
\* signature and every retained protostem of the side is (reversed on the
\* prefix side) the longest common prefix, of L letters or more, of two
\* neighbours in the sorted list of the words (reversed on the prefix
\* side), and a word of fewer than L letters is neither a stem nor a
\* protostem and has the whole word as its only current parse.
C22_ProtostemsOfNeighbours ==
    \A affix_side \in Sides :
        JustFound(affix_side) =>
            /\ \A stem \in StemsAndProtostems(morph, affix_side) :
                   /\ Len(stem) >= call.min_stem_len
                   /\ BetweenNeighbours(AsMorpheme(stem, affix_side),
                                        SortedWords(morph, affix_side),
                                        call.min_stem_len)
            /\ \A i \in 1..Len(morph.lexicon) :
                   Len(morph.lexicon[i][1]) < call.min_stem_len =>
                       /\ morph.lexicon[i][1] \notin StemsAndProtostems(morph, affix_side)
                       /\ get_parses(morph.lexicon[i][2], affix_side)
                              = {Parse(<<morph.lexicon[i][1]>>)}

\* find_signatures1 has run on the prefix side of a lexicon that has a word
\* shorter than the minimum stem length, and has left a signature and a
\* protostem.
C22_Witness ==
    /\ JustFound("prefix")
    /\ \E i \in 1..Len(morph.lexicon) : Len(morph.lexicon[i][1]) < call.min_stem_len
    /\ Len(get_signatures(morph, "prefix")) > 0
    /\ Len(get_protostems(morph, "prefix")) > 0

\* The bigrams of the signatures of a side that spell the word.
BigramsOfWord(self, form, affix_side) ==
    {bigram \in get_bigrams(self, affix_side) : Join(bigram, "") = form}

\* The word's biography of a side.
BiographyOf(word, affix_side) ==
    IF affix_side = "prefix" THEN word._prefixal_biography ELSE word._suffixal_biography

\* C23: after find_signatures1 on a side, whatever min_num_stems, the words
\* that have a biography entry for the pass are exactly the words that a
\* bigram of a signature of the side spells, and the entry holds exactly
\* the parses (stem, affix) that are those bigrams.
C23_BiographiesAndSignatures ==
    \A affix_side \in Sides :
        JustFound(affix_side) =>
            \A i \in 1..Len(morph.lexicon) :
                LET form == morph.lexicon[i][1]
                    word == morph.lexicon[i][2]
                    covered == BigramsOfWord(morph, form, affix_side)
                IN  /\ HasKey(BiographyOf(word, affix_side), "find_signatures1")
                           <=> covered # {}
                    /\ get_biography(word, "find_signatures1", affix_side)
                           = {Parse(bigram) : bigram \in covered}

------------------------------------------------------------------------------
(* What one widen_signatures pass does to the protostems.                  *)

\* The step is a call of widen_signatures on the side that returns.
WidenStep(affix_side) ==
    /\ call # None
    /\ call.pc = "returned"
    /\ ncalls' = ncalls + 1
    /\ ret' = Passed("widen_signatures", affix_side, None)

\* The signatures of the side whose affixes are all among the continuations.
FittingSignatures(self, continuations, affix_side) ==
    {signature \in Range(get_signatures(self, affix_side)) :
        Range(Keys(signature.affixes)) \subseteq continuations}

\* No signature of the set is visited before this one: none has more
\* affixes, and none with as many affixes is more robust.
VisitedFirst(signature, signatures) ==
    \A other_ \in signatures :
        \/ Len(other_.affixes) < Len(signature.affixes)
        \/ /\ Len(other_.affixes) = Len(signature.affixes)
           /\ robustness(other_) <= robustness(signature)

\* The word that a protostem and an affix form has the two of them as a
\* parse in its biography entry of widen_signatures.
WidenedWith(self, protostem, affix, affix_side) ==
    LET bigram == switch_if_needed(<<protostem, affix>>, affix_side)
    IN  /\ HasKey(self.lexicon, Join(bigram, ""))
        /\ Parse(bigram) \in get_biography(Get(self.lexicon, Join(bigram, "")),
                                           "widen_signatures", affix_side)

\* The step takes from the continuations of every protostem the affixes of
\* the first visited signature that fits them, and nothing when none fits,
\* and pairs the protostem with each of these affixes.
ClaimedByFirstFit(affix_side) ==
    LET store == get_protostems(morph, affix_side)
    IN  /\ Keys(get_protostems(morph', affix_side)) = Keys(store)
        /\ \A i \in 1..Len(store) :
            LET protostem == store[i][1]
                fitting == FittingSignatures(morph, store[i][2], affix_side)
                left == Get(get_protostems(morph', affix_side), protostem)
            IN  IF fitting = {}
                THEN left = store[i][2]
                ELSE \E signature \in fitting :
                        /\ VisitedFirst(signature, fitting)
                        /\ left = store[i][2] \ Range(Keys(signature.affixes))
                        /\ \A affix \in Range(Keys(signature.affixes)) :
                               WidenedWith(morph', protostem, affix, affix_side)

\* After the step every protostem that a signature fitted is a stem of a
\* signature that has the affixes taken from its continuations.
ClaimedStemsKept(affix_side) ==
    LET store == get_protostems(morph, affix_side)
    IN  \A i \in 1..Len(store) :
            LET taken == store[i][2] \ Get(get_protostems(morph', affix_side), store[i][1])
            IN  FittingSignatures(morph, store[i][2], affix_side) # {} =>
                    \E signature \in Range(get_signatures(morph', affix_side)) :
                        /\ Range(Keys(signature.affixes)) = taken
                        /\ store[i][1] \in Range(Keys(signature.stems))

\* C24: in one widen_signatures pass every protostem is claimed at most
\* once.  The signatures being visited by number of affixes descending,
\* then robustness descending, a protostem is given to the first visited
\* signature whose affixes are all among its continuations: it is paired
\* with every affix of that signature, exactly those affixes leave its
\* continuations, and after the rebuild it is a stem of the signature that
\* claimed it.
C24_ClaimedOnce ==
    [][\A affix_side \in Sides :
          WidenStep(affix_side) =>
              ClaimedByFirstFit(affix_side) /\ ClaimedStemsKept(affix_side)]_vars

------------------------------------------------------------------------------
(* What split_affixes does.                                                *)

\* The step is split_affixes on the side, run by learn_from_wordlist or
\* called on its own, and it returns.
SplitStep(affix_side) ==
    /\ call # None
    /\ \/ /\ call.pc = "split_affixes"
          /\ call'.pc = "create_families"
          /\ affix_side = call.affix_side
       \/ /\ call.pc = "returned"
          /\ ncalls' = ncalls + 1
          /\ ret' = Passed("split_affixes", affix_side, None)

\* Some signature of the side has an edge entropy of
\* MIN_ENTROPY_FOR_BIPARSE_INCLUSION or more.
ThresholdReached(self, affix_side) ==
    \E signature \in Range(get_signatures(self, affix_side)) :
        /\ get_edge_entropy(signature, 1).kind = "float"
        /\ get_edge_entropy(signature, 1).milli >= MIN_ENTROPY_FOR_BIPARSE_INCLUSION

\* C25: split_affixes admits a biparse only if the edge entropy of the long
\* stem signature is MIN_ENTROPY_FOR_BIPARSE_INCLUSION (1.5) or more: when
\* no signature of the side reaches the threshold, the pass indexes no
\* morpheme, removes no bigram and leaves every word the parses that it had.
C25_NothingBelowThreshold ==
    [][\A affix_side \in Sides :
          (SplitStep(affix_side) /\ ~ThresholdReached(morph, affix_side)) =>
              /\ name_collisions(morph', affix_side) = name_collisions(morph, affix_side)
              /\ get_bigrams(morph, affix_side) \subseteq get_bigrams(morph', affix_side)
              /\ \A i \in 1..Len(morph.lexicon) :
                     get_parses(morph'.lexicon[i][2], affix_side)
                         = get_parses(morph.lexicon[i][2], affix_side)]_vars

\* The word has a current parse other than the bare word.
Analysed(word, affix_side) == get_parses(word, affix_side) # {Parse(<<word.form>>)}

\* The long stem that a short stem and the diff of a biparse make.
LongStem(stem, diff, affix_side) ==
    IF affix_side = "suffix" THEN stem \o diff ELSE diff \o stem

\* The biparse group accounts for the removal of the bigram of stem and
\* affix: the stem is one of its short stems, the affix begins with its
\* diff, the long stem with the rest of the affix is a bigram of its long
\* signature, and the bigrams after the pass pair the stem with the
\* indexed diff and the indexed diff with the rest of the affix.
Rewired(self, after, biparse, stem, affix, affix_side) ==
    LET diff == biparse[1]
        residue == SliceFrom(affix, Len(diff))
    IN  /\ stem \in ShortStems(self, biparse, affix_side)
        /\ StartsWith(affix, diff)
        /\ switch_if_needed(<<LongStem(stem, diff, affix_side), residue>>, affix_side)
               \in bigrams(get_signature(self, biparse[3], affix_side))
        /\ \E indexed_diff \in {AffixOf(bigram, affix_side) :
                                   bigram \in get_bigrams(after, affix_side)} :
               /\ Contains(indexed_diff, AFFIX_MARKER)
               /\ Unindexed(indexed_diff, affix_side) = diff
               /\ switch_if_needed(<<stem, indexed_diff>>, affix_side)
                      \in get_bigrams(after, affix_side)
               /\ switch_if_needed(<<indexed_diff, residue>>, affix_side)
                      \in get_bigrams(after, affix_side)

\* Every bigram of the short signature of an admitted biparse group that
\* the pass removes is accounted for by a group of that short signature.
RemovedOnlyIfRewired(self, after, affix_side) ==
    \A biparse \in Biparses(self, affix_side) :
        \A stem \in ShortStems(self, biparse, affix_side),
           affix \in Range(Keys(get_signature(self, biparse[2], affix_side).affixes)) :
            switch_if_needed(<<stem, affix>>, affix_side) \notin get_bigrams(after, affix_side)
                => \E group \in Biparses(self, affix_side) :
                       /\ group[2] = biparse[2]
                       /\ Rewired(self, after, group, stem, affix, affix_side)

\* C26: for each admitted biparse group (diff, short signature, long
\* signature), split_affixes removes a bigram (stem, affix) of the short
\* signature only when the affix begins with diff and the long stem with
\* the rest of the affix is covered by the long signature, and replaces it
\* by (stem, indexed diff) and (indexed diff, rest of the affix); so every
\* word that had an analysis before the pass has a parse other than the
\* bare word after it.
C26_RewiredOrKept ==
    [][\A affix_side \in Sides :
          SplitStep(affix_side) =>
              /\ RemovedOnlyIfRewired(morph, morph', affix_side)
              /\ \A i \in 1..Len(morph.lexicon) :
                     Analysed(morph.lexicon[i][2], affix_side)
                         => Analysed(morph'.lexicon[i][2], affix_side)]_vars

------------------------------------------------------------------------------
(* What build_signatures returns and leaves.                               *)

\* C27: build_signatures returns the number of signatures that it
\* constructed, which is the number of signatures that the side holds after
\* the call, whatever the bigrams and min_num_stems.
C27_NumberOfSignatures ==
    (ret # None /\ ret.call = "build_signatures") =>
        ret.result = Len(get_signatures(morph, ret.affix_side))

\* C28: after build_signatures the signatures of the side partition their
\* stems: no stem belongs to two signatures, the affixes of the signature
\* of a stem are exactly the affixes that the bigrams given to
\* build_signatures pair with the stem, and no two signatures of the side
\* have the same affixes.
C28_StemsPartitioned ==
    (ret # None /\ ret.call = "build_signatures") =>
        LET built == get_signatures(morph, ret.affix_side)
        IN  /\ \A i, j \in 1..Len(built) :
                i # j =>
                    /\ Range(Keys(built[i].stems)) \cap Range(Keys(built[j].stems)) = {}
                    /\ Range(Keys(built[i].affixes)) # Range(Keys(built[j].affixes))
            /\ \A i \in 1..Len(built) :
                \A stem \in Range(Keys(built[i].stems)) :
                    Range(Keys(built[i].affixes))
                        = {AffixOf(bigram, ret.affix_side) :
                              bigram \in {b \in ret.bigrams :
                                             StemOf(b, ret.affix_side) = stem}}

\* build_signatures has left on the prefix side a signature of two stems,
\* and a stem of the bigrams is in no signature.
C28_Witness ==
    /\ ret # None
    /\ ret.call = "build_signatures"
    /\ ret.affix_side = "prefix"
    /\ \E signature \in Range(get_signatures(morph, "prefix")) :
           Len(signature.stems) = 2
    /\ \E bigram \in ret.bigrams :
           \A signature \in Range(get_signatures(morph, "prefix")) :
               StemOf(bigram, "prefix") \notin Range(Keys(signature.stems))

------------------------------------------------------------------------------
(* Stripping the index that add_new_index gives.                           *)

\* C29: stripping undoes indexing on both sides: for every affix that is
\* neither NULL nor marked, strip_index gives the affix back from what
\* add_new_index returns for it on the suffix side and on the prefix side;
\* strip_index leaves NULL and an affix without a marker as they are.
C29_StripUndoesIndex ==
    (ret # None) =>
        /\ Indexable(ret.affix) => strip_index(ret.result) = ret.affix
        /\ \A affix \in IndexedAffixPool :
               (affix = NULL_AFFIX \/ Indexable(affix)) => strip_index(affix) = affix

------------------------------------------------------------------------------
(* split_affixes on the prefix side and on the suffix side of the          *)
(* reversed words.                                                         *)

\* s ends with p.
EndsWith(s, p) == Len(p) <= Len(s) /\ SubSeq(s, Len(s) - Len(p) + 1, Len(s)) = p

\* The bigrams of the side that a pass removed.
RemovedBigrams(before, after, affix_side) ==
    get_bigrams(before, affix_side) \ get_bigrams(after, affix_side)

\* The suffixal bigram of the reversed word that mirrors a prefixal bigram.
MirrorBigram(bigram) == <<Reverse(bigram[2]), Reverse(bigram[1])>>

\* The morphology that learn_from_wordlist, given the reversed words of the
\* running call and the suffix side, has when it comes to split_affixes,
\* as far as the suffix side goes.
MirrorBeforeSplit ==
    find_good_signatures_inside_bad(
        find_signatures1(
            Populate(Morphology(<<>>),
                     [i \in 1..Len(call.wordlist) |-> Reverse(call.wordlist[i])], TRUE),
            call.min_stem_len, call.min_num_stems, "suffix"),
        "suffix")

\* The prefixes of the short signatures that the step rewrites are exactly
\* those that end with the diff of an admitted biparse of their stem.
PrefixesEndingWithDiff ==
    \A biparse \in Biparses(morph, "prefix") :
        \A stem \in ShortStems(morph, biparse, "prefix"),
           affix \in Range(Keys(get_signature(morph, biparse[2], "prefix").affixes)) :
            (<<affix, stem>> \in RemovedBigrams(morph, morph', "prefix"))
                <=> \E group \in Biparses(morph, "prefix") :
                        /\ group[2] = biparse[2]
                        /\ stem \in ShortStems(morph, group, "prefix")
                        /\ EndsWith(affix, group[1])

\* The step removes the bigrams that mirror those that split_affixes
\* removes on the suffix side of the reversed words.
MirrorsSuffixPass ==
    /\ SplitExceptions(MirrorBeforeSplit, "suffix") = {}
    /\ \E biparses \in BiparseOrders(MirrorBeforeSplit, "suffix") :
           {MirrorBigram(bigram) : bigram \in RemovedBigrams(morph, morph', "prefix")}
               = RemovedBigrams(MirrorBeforeSplit,
                                split_affixes(MirrorBeforeSplit, "suffix", biparses),
                                "suffix")

\* C30: split_affixes on the prefix side is the mirror image of the suffix
\* side: for a biparse of difference diff, the prefixes of the short
\* signature that are rewritten are exactly those that end with diff, and
\* the prefix pass that learn_from_wordlist runs on a lexicon rewrites the
\* bigrams that mirror those that the suffix pass rewrites on the lexicon
\* of the reversed words.
C30_PrefixMirrorsSuffix ==
    [][(SplitStep("prefix") /\ call.pc = "split_affixes") =>
           PrefixesEndingWithDiff /\ MirrorsSuffixPass]_vars

====
